---- MODULE Spec2Model ----
(***************************************************************************)
(* Streaming line-oriented patch application of the codestory extension:   *)
(* the delta accumulators, the line registry (DocumentManager), the        *)
(* indentation rebase (LineIndentManager) and the two stream processors    *)
(* (the inline one of reportFromStreamToEditorSessionProgress and the      *)
(* limit-aware one of reportAgentEventsToChat).                            *)
(*                                                                         *)
(* A string is a sequence of one-character strings.  Line indices are      *)
(* 0-based as in the source; sequence positions are 1-based, so line i of  *)
(* a registry r is r[i + 1].                                               *)
(***************************************************************************)
EXTENDS Integers, Sequences, FiniteSets, TLC

VARIABLES
    variant,            \* "streaming" (openai.ts) or "inline" (extension.ts)
    acc,                \* the accumulator object
    text,               \* accumulator runs: the whole string s to be fed
    fed,                \* accumulator runs: how many characters of s were fed
    drained,            \* every line getLine has returned, in order
    lastLine,           \* what the last getLine call returned
    sp,                 \* the StreamProcessor with its DocumentManager
    textDocument,       \* the live document, as its lines
    limiter,            \* the edits queued on / run by the limiter
    token,              \* cancellationToken.isCancellationRequested
    pc,                 \* where the event loop stands
    nEvents,            \* stream events delivered so far
    streamed,           \* history: the deltas of the session, concatenated
    issued,             \* history: every edit emitted, in issue order
    session             \* history: what held when the session was started

vars == <<variant, acc, text, fed, drained, lastLine, sp, textDocument,
          limiter, token, pc, nEvents, streamed, issued, session>>

(***************************************************************************)
(* Strings                                                                 *)
(***************************************************************************)
NL == "\n"
TAB == "\t"
SP == " "
\* The grave accent (U+0060); SANY cannot lex that character inside a string
\* literal, so the character is written by name.
BACKTICK == "GRAVE"

\* String.prototype.indexOf for a one-character needle: 0-based, -1 if absent.
IndexOf(s, c) ==
    IF \E i \in 1..Len(s) : s[i] = c
    THEN (CHOOSE i \in 1..Len(s) : s[i] = c /\ \A j \in 1..(i - 1) : s[j] # c) - 1
    ELSE -1

\* String.prototype.substring(from, to) and substring(from), 0-based.
Substring(s, from, to) == SubSeq(s, from + 1, to)
SubstringFrom(s, from) == SubSeq(s, from + 1, Len(s))

\* /^(three grave accents)/.test(line)
StartsWithFence(line) ==
    /\ Len(line) >= 3
    /\ line[1] = BACKTICK /\ line[2] = BACKTICK /\ line[3] = BACKTICK

IsWhitespace(c) == c \in {SP, TAB, NL, "\r"}

\* The leading whitespace of a line.
RECURSIVE LeadingWhitespaceLen(_)
LeadingWhitespaceLen(s) ==
    IF s = <<>> \/ ~IsWhitespace(s[1]) THEN 0
    ELSE 1 + LeadingWhitespaceLen(Tail(s))

RECURSIVE TrailingWhitespaceLen(_)
TrailingWhitespaceLen(s) ==
    IF s = <<>> \/ ~IsWhitespace(s[Len(s)]) THEN 0
    ELSE 1 + TrailingWhitespaceLen(SubSeq(s, 1, Len(s) - 1))

\* String.prototype.trim
Trim(s) ==
    LET l == LeadingWhitespaceLen(s)
    IN  IF l = Len(s) THEN <<>>
        ELSE SubSeq(s, l + 1, Len(s) - TrailingWhitespaceLen(s))

\* String.prototype.startsWith
StartsWith(s, p) == Len(s) >= Len(p) /\ SubSeq(s, 1, Len(p)) = p

\* str.split('\n')
RECURSIVE SplitLines(_)
SplitLines(s) ==
    LET i == IndexOf(s, NL)
    IN  IF i = -1 THEN <<s>>
        ELSE <<Substring(s, 0, i)>> \o SplitLines(SubstringFrom(s, i + 1))

(***************************************************************************)
(* AnswerStreamContext and the two accumulators                            *)
(***************************************************************************)
BeforeCodeBlock == "BeforeCodeBlock"
InCodeBlock == "InCodeBlock"
AfterCodeBlock == "AfterCodeBlock"

\* A delta of null or undefined.
NullDelta == <<"null">>
\* getLine's null.
NullLine == [line |-> <<>>, context |-> "null"]

\* new AnswerSplitOnNewLineAccumulator() / ...Streaming()
NewAccumulator ==
    [accumulator |-> <<>>, lines |-> <<>>,
     codeBlockStringFound |-> FALSE, runningState |-> BeforeCodeBlock]

\* The context update of the inline accumulator for one complete line.
ClassifyInline(a, completeLine) ==
    IF StartsWithFence(completeLine)
    THEN IF ~a.codeBlockStringFound
         THEN [found |-> TRUE, state |-> InCodeBlock]
         ELSE [found |-> a.codeBlockStringFound, state |-> AfterCodeBlock]
    ELSE [found |-> a.codeBlockStringFound, state |-> a.runningState]

\* The context update of the streaming accumulator for one complete line.
ClassifyStreaming(a, completeLine) ==
    IF StartsWithFence(completeLine)
    THEN IF ~a.codeBlockStringFound
         THEN [found |-> TRUE, state |-> BeforeCodeBlock]
         ELSE [found |-> a.codeBlockStringFound, state |-> InCodeBlock]
    ELSE IF a.codeBlockStringFound
         THEN [found |-> a.codeBlockStringFound, state |-> InCodeBlock]
         ELSE [found |-> a.codeBlockStringFound, state |-> a.runningState]

\* A plausible slip: the queued line keeps its terminating newline.
PushLineKeepsNewline(a, newLineIndex, c) ==
    [accumulator |-> SubstringFrom(a.accumulator, newLineIndex + 1),
     lines |-> Append(a.lines,
                      [line |-> Substring(a.accumulator, 0, newLineIndex + 1),
                       context |-> c.state]),
     codeBlockStringFound |-> c.found,
     runningState |-> c.state]

\* One turn of addDelta's while (true) loop, after a newline was found.
PushLine(a, newLineIndex, c) ==
    [accumulator |-> SubstringFrom(a.accumulator, newLineIndex + 1),
     lines |-> Append(a.lines,
                      [line |-> Substring(a.accumulator, 0, newLineIndex),
                       context |-> c.state]),
     codeBlockStringFound |-> c.found,
     runningState |-> c.state]

RECURSIVE SplitLoopInline(_)
SplitLoopInline(a) ==
    LET newLineIndex == IndexOf(a.accumulator, NL)
    IN  IF newLineIndex = -1 THEN a
        ELSE SplitLoopInline(
                 PushLine(a, newLineIndex,
                          ClassifyInline(a, Substring(a.accumulator, 0, newLineIndex))))

RECURSIVE SplitLoopStreaming(_)
SplitLoopStreaming(a) ==
    LET newLineIndex == IndexOf(a.accumulator, NL)
    IN  IF newLineIndex = -1 THEN a
        ELSE SplitLoopStreaming(
                 PushLine(a, newLineIndex,
                          ClassifyStreaming(a, Substring(a.accumulator, 0, newLineIndex))))

\* AnswerSplitOnNewLineAccumulator.addDelta (inline)
AddDeltaInline(a, delta) ==
    IF delta = NullDelta THEN a
    ELSE SplitLoopInline([a EXCEPT !.accumulator = a.accumulator \o delta])

\* A plausible slip: the text after the last newline is dropped, not kept.
AddDeltaStreamingDropsRemainder(a, delta) ==
    IF delta = NullDelta THEN a
    ELSE [SplitLoopStreaming([a EXCEPT !.accumulator = a.accumulator \o delta])
             EXCEPT !.accumulator = <<>>]

\* AnswerSplitOnNewLineAccumulatorStreaming.addDelta
AddDeltaStreaming(a, delta) ==
    IF delta = NullDelta THEN a
    ELSE SplitLoopStreaming([a EXCEPT !.accumulator = a.accumulator \o delta])

AddDelta(v, a, delta) ==
    IF v = "inline" THEN AddDeltaInline(a, delta) ELSE AddDeltaStreaming(a, delta)

\* A plausible slip: the newest queued line is handed out, not the oldest.
GetLineNewest(a) ==
    IF Len(a.lines) = 0
    THEN [line |-> NullLine, acc |-> a]
    ELSE [line |-> a.lines[Len(a.lines)],
          acc |-> [a EXCEPT !.lines = SubSeq(a.lines, 1, Len(a.lines) - 1)]]

\* getLine: the line returned (NullLine for null) and the accumulator after.
GetLine(a) ==
    IF Len(a.lines) = 0
    THEN [line |-> NullLine, acc |-> a]
    ELSE [line |-> a.lines[1], acc |-> [a EXCEPT !.lines = Tail(a.lines)]]

(***************************************************************************)
(* Indentation: IndentationHelper (editorSessionProvider), LineContent,    *)
(* LineIndentManager and AdjustedLineContent                               *)
(***************************************************************************)
Tabs == "Tabs"
Spaces == "Spaces"
\* A style that is undefined or null.
NullStyle == [kind |-> "null", indentSize |-> 0]
\* getDocumentIndentStyle's style for a document without any indented line.
DefaultIndentSize == 4

Min(a, b) == IF a < b THEN a ELSE b
Max(a, b) == IF a > b THEN a ELSE b

\* IndentationHelper.getLeadingWhitespace: the leading run of blanks and tabs.
RECURSIVE GetLeadingWhitespace(_)
GetLeadingWhitespace(line) ==
    IF line = <<>> \/ line[1] \notin {SP, TAB} THEN <<>>
    ELSE <<line[1]>> \o GetLeadingWhitespace(Tail(line))

\* The indent level of a line whose leading whitespace is whiteSpace.
LevelOf(line, style, whiteSpace) ==
    IF whiteSpace = <<>> \/ line = <<SP>>
    THEN [whitespace |-> <<>>, level |-> 0]
    ELSE IF style.kind = Tabs
         THEN [whitespace |-> whiteSpace,
               level |-> Cardinality({i \in 1..Len(whiteSpace) : whiteSpace[i] = TAB})]
         ELSE [whitespace |-> whiteSpace,
               level |-> Len(whiteSpace) \div Max(style.indentSize, 1)]

\* IndentationHelper.guessIndentLevel(line, style): [whitespace, level].
GuessIndentLevel(line, style) == LevelOf(line, style, GetLeadingWhitespace(line))

\* IndentationHelper.guessIndentStyleFromLeadingWhitespace
GuessIndentStyleFromLeadingWhitespace(whiteSpace) ==
    IF \E i \in 1..Len(whiteSpace) : whiteSpace[i] = TAB
    THEN [kind |-> Tabs, indentSize |-> 0]
    ELSE [kind |-> Spaces, indentSize |-> Len(whiteSpace)]

\* IndentationHelper.getDocumentIndentStyle(lines, hint): the hint if there is
\* one; Tabs if an indented line starts with a tab; else the most common
\* non-zero run of leading blanks (the smallest of them on a tie); else 4.
GetDocumentIndentStyle(lines, hint) ==
    LET ws(i) == GetLeadingWhitespace(lines[i])
        indented == {i \in 1..Len(lines) : ws(i) # <<>>}
        count(n) == Cardinality({i \in indented : Len(ws(i)) = n})
        sizes == {Len(ws(i)) : i \in indented}
        best == {n \in sizes : \A m \in sizes : count(m) <= count(n)}
    IN  IF hint # NullStyle THEN hint
        ELSE IF \E i \in indented : ws(i)[1] = TAB
             THEN [kind |-> Tabs, indentSize |-> 0]
             ELSE IF sizes = {}
                  THEN [kind |-> Spaces, indentSize |-> DefaultIndentSize]
                  ELSE [kind |-> Spaces,
                        indentSize |-> CHOOSE n \in best : \A m \in best : n <= m]

\* new LineContent(content, indentStyle): not sent.
NewLineContent(content) == [content |-> content, isSent |-> FALSE]
\* A hole of the lines array (an index never assigned).
UndefinedLine == [content |-> <<"undefined">>, isSent |-> FALSE]

\* LineContent.trimmedContent and LineContent.indentLevel
TrimmedContent(l) == Trim(l.content)
IndentLevel(l, style) == GuessIndentLevel(l.content, style).level

\* No LineIndentManager yet (previousLine === null).
NullManager == [indentDelta |-> 0, replyIndentStyle |-> NullStyle, set |-> FALSE]

\* LineIndentManager.guessIndentLevel: [whitespace, level] and the reply style,
\* which is guessed from the first indented line seen and then kept.
ManagerLevelOf(m, line, whiteSpace) ==
    IF whiteSpace = <<>> \/ line = <<SP>>
    THEN [whitespace |-> <<>>, level |-> 0, style |-> m.replyIndentStyle]
    ELSE IF m.replyIndentStyle # NullStyle
         THEN [style |-> m.replyIndentStyle] @@ LevelOf(line, m.replyIndentStyle, whiteSpace)
         ELSE [style |-> GuessIndentStyleFromLeadingWhitespace(whiteSpace)]
                  @@ LevelOf(line, GuessIndentStyleFromLeadingWhitespace(whiteSpace),
                             whiteSpace)

ManagerGuessIndentLevel(m, line) == ManagerLevelOf(m, line, GetLeadingWhitespace(line))

\* new LineIndentManager(indentLevel, line)
ManagerFrom(indentLevel, g) ==
    [indentDelta |-> g.level - indentLevel, replyIndentStyle |-> g.style, set |-> TRUE]

NewLineIndentManager(indentLevel, line) ==
    ManagerFrom(indentLevel, ManagerGuessIndentLevel(NullManager, line))

\* LineIndentManager.getIndentString
GetIndentString(style) ==
    IF style.kind = Tabs THEN <<TAB>> ELSE [i \in 1..style.indentSize |-> SP]

\* String.prototype.repeat(count) for count >= 0 (a negative count throws).
RECURSIVE Repeat(_, _)
Repeat(s, count) == IF count <= 0 THEN <<>> ELSE s \o Repeat(s, count - 1)

\* new AdjustedLineContent(...)
AdjustedLineContent(originalContent, originalIndentLevel, adjustedContent, adjustedIndentLevel) ==
    [originalContent |-> originalContent, originalIndentLevel |-> originalIndentLevel,
     adjustedContent |-> adjustedContent, adjustedIndentLevel |-> adjustedIndentLevel]

\* LineIndentManager.reindent(line, style): the adjusted line, the manager
\* after the call, and whether repeat() threw a RangeError (negative count).
ReindentTo(m, line, style, g, indentationNewLevel) ==
    [adj |-> AdjustedLineContent(
                 line, g.level,
                 Repeat(GetIndentString(style), indentationNewLevel)
                     \o SubstringFrom(line, Len(g.whitespace)),
                 indentationNewLevel),
     m |-> [m EXCEPT !.replyIndentStyle = g.style],
     threw |-> indentationNewLevel < 0]

\* reindent without the rebase: the line keeps its own level.
ReindentKeepsLevel(m, line, style, g) == ReindentTo(m, line, style, g, g.level)

ReindentWith(m, line, style, g) ==
    ReindentTo(m, line, style, g, g.level - m.indentDelta)

Reindent(m, line, style) ==
    IF line = <<>>
    THEN [adj |-> AdjustedLineContent(<<>>, 0, <<>>, 0), m |-> m, threw |-> FALSE]
    ELSE ReindentWith(m, line, style, ManagerGuessIndentLevel(m, line))

(***************************************************************************)
(* The editor side: a range replacement applied to the live document       *)
(***************************************************************************)
\* The column the edits use for "the end of the line".
EndOfLineColumn == 1000

\* new vscode.Range(startLine, startCol, endLine, endCol) with its new text.
Edit(startLine, startCol, endLine, endCol, newText) ==
    [startLine |-> startLine, startCol |-> startCol,
     endLine |-> endLine, endCol |-> endCol, newText |-> newText]

\* The editor's position validation: a line past the last line is the end of
\* the last line, a column past the end of its line is the end of that line.
ValidatePosition(doc, line, col) ==
    IF line > Len(doc) - 1
    THEN [line |-> Len(doc) - 1, col |-> Len(doc[Len(doc)])]
    ELSE [line |-> Max(line, 0), col |-> Min(Max(col, 0), Len(doc[Max(line, 0) + 1]))]

\* The document after the text between the two positions is replaced.
ApplyEdit(doc, e) ==
    LET from == ValidatePosition(doc, e.startLine, e.startCol)
        to == ValidatePosition(doc, e.endLine, e.endCol)
        replaced == Substring(doc[from.line + 1], 0, from.col) \o e.newText
                        \o SubstringFrom(doc[to.line + 1], to.col)
    IN  SubSeq(doc, 1, from.line) \o SplitLines(replaced)
            \o SubSeq(doc, to.line + 2, Len(doc))

RECURSIVE ApplyEdits(_, _)
ApplyEdits(doc, es) ==
    IF es = <<>> THEN doc ELSE ApplyEdits(ApplyEdit(doc, Head(es)), Tail(es))

(***************************************************************************)
(* DocumentManager: the line registry                                      *)
(***************************************************************************)
\* this.lines[index] = line, on a JavaScript array (a write past the end
\* leaves holes).
SetAt(lines, index, line) ==
    [i \in 1..Max(Len(lines), index + 1) |->
        IF i = index + 1 THEN line
        ELSE IF i <= Len(lines) THEN lines[i] ELSE UndefinedLine]

\* this.lines.splice(start, deleteCount, line)
Splice(lines, start, deleteCount, line) ==
    LET from == IF start < 0 THEN Max(Len(lines) + start, 0) ELSE Min(start, Len(lines))
        del == Min(Max(deleteCount, 0), Len(lines) - from)
    IN  SubSeq(lines, 1, from) \o <<line>> \o SubSeq(lines, from + del + 1, Len(lines))

\* What an operation gives back: the lines after it, the edits it emitted
\* and the index it returns.
OpResult(lines, edits, ret) == [lines |-> lines, edits |-> edits, ret |-> ret]

\* A plausible slip: the line written by replaceLine is marked sent.
ReplaceLineMarksSent(lines, index, newLine) ==
    OpResult(SetAt(lines, index, [content |-> newLine.adjustedContent, isSent |-> TRUE]),
             <<Edit(index, 0, index, EndOfLineColumn, newLine.adjustedContent)>>,
             index + 1)

\* DocumentManager.replaceLine (both variants)
ReplaceLine(lines, index, newLine) ==
    OpResult(SetAt(lines, index, NewLineContent(newLine.adjustedContent)),
             <<Edit(index, 0, index, EndOfLineColumn, newLine.adjustedContent)>>,
             index + 1)

\* A plausible slip: the multi-line edit is emitted and the call then still
\* goes through replaceLine.
ReplaceLinesEmitsTwice(lines, startIndex, endIndex, newLine) ==
    LET one == ReplaceLine(lines, startIndex, newLine)
    IN  OpResult(Splice(lines, startIndex, endIndex - startIndex + 1,
                        NewLineContent(newLine.adjustedContent)),
                 <<Edit(startIndex, 0, endIndex, EndOfLineColumn, newLine.adjustedContent)>>
                     \o one.edits,
                 startIndex + 1)

\* DocumentManager.replaceLines (both variants)
ReplaceLines(lines, startIndex, endIndex, newLine) ==
    IF startIndex = endIndex
    THEN ReplaceLine(lines, startIndex, newLine)
    ELSE OpResult(Splice(lines, startIndex, endIndex - startIndex + 1,
                         NewLineContent(newLine.adjustedContent)),
                  <<Edit(startIndex, 0, endIndex, EndOfLineColumn, newLine.adjustedContent)>>,
                  startIndex + 1)

\* DocumentManager.appendLine of the streaming variant
AppendLineStreaming(lines, newLine) ==
    LET pushed == Append(lines, NewLineContent(newLine.adjustedContent))
    IN  OpResult(pushed,
                 <<Edit(Len(pushed) - 2, EndOfLineColumn, Len(pushed) - 2, EndOfLineColumn,
                        <<NL>> \o newLine.adjustedContent)>>,
                 Len(pushed))

\* A plausible slip: appendLine returns the index of the line it added.
AppendLineInlineReturnsLast(lines, newLine) ==
    LET pushed == Append(lines, NewLineContent(newLine.adjustedContent))
    IN  OpResult(pushed,
                 <<Edit(Len(pushed) - 1, EndOfLineColumn, Len(pushed) - 1, EndOfLineColumn,
                        <<NL>> \o newLine.adjustedContent)>>,
                 Len(pushed) - 1)

\* DocumentManager.appendLine of the inline variant
AppendLineInline(lines, newLine) ==
    LET pushed == Append(lines, NewLineContent(newLine.adjustedContent))
    IN  OpResult(pushed,
                 <<Edit(Len(pushed) - 1, EndOfLineColumn, Len(pushed) - 1, EndOfLineColumn,
                        <<NL>> \o newLine.adjustedContent)>>,
                 Len(pushed))

\* DocumentManager.insertLineAfter of the streaming variant
InsertLineAfterStreaming(lines, index, newLine) ==
    OpResult(Splice(lines, index + 1, 0, NewLineContent(newLine.adjustedContent)),
             <<Edit(index, EndOfLineColumn, index, EndOfLineColumn,
                    <<NL>> \o newLine.adjustedContent)>>,
             index + 2)

\* A plausible slip: the new line is put at index, not after it.
InsertLineAtInline(lines, index, newLine) ==
    OpResult(Splice(lines, index, 0, NewLineContent(newLine.adjustedContent)),
             <<Edit(index + 1, EndOfLineColumn, index + 1, EndOfLineColumn,
                    <<NL>> \o newLine.adjustedContent)>>,
             index + 2)

\* DocumentManager.insertLineAfter of the inline variant
InsertLineAfterInline(lines, index, newLine) ==
    OpResult(Splice(lines, index + 1, 0, NewLineContent(newLine.adjustedContent)),
             <<Edit(index + 1, EndOfLineColumn, index + 1, EndOfLineColumn,
                    <<NL>> \o newLine.adjustedContent)>>,
             index + 2)

(***************************************************************************)
(* StreamProcessor: construction                                           *)
(***************************************************************************)
Initial == "Initial"
InitialAfterFilePath == "InitialAfterFilePath"
InProgress == "InProgress"

\* lines[index].markSent() for every index of first..first + count - 1.
MarkSent(lines, first, count) ==
    [i \in 1..Len(lines) |->
        IF first + 1 <= i /\ i <= first + count
        THEN [lines[i] EXCEPT !.isSent = TRUE] ELSE lines[i]]

\* No session: editsMap holds nothing / streamProcessor === null.
NoProcessor ==
    [lines |-> <<>>, indentStyle |-> NullStyle, firstSentLineIndex |-> 0,
     firstRangeLine |-> 0, currentState |-> Initial, previousLine |-> NullManager,
     documentLineIndex |-> 0, sentEdits |-> FALSE, documentLineLimit |-> 0,
     endDetected |-> FALSE, beginDetected |-> FALSE]

\* The streaming DocumentManager constructor calls this.lines[lineIndex].markSent()
\* for every line of the range; it kept lines 0..min(max(L - 1, 0), range end)
\* only, so for a range ending past the last editor line the entry is
\* undefined and the call throws a TypeError.
ConstructionThrows(editorLines, range) ==
    range.endLine > Min(Max(Len(editorLines) - 1, 0), range.endLine)

\* new StreamProcessor(...) of the streaming variant, with its DocumentManager:
\* the working set ends at the range's end line.
NewStreamProcessorStreaming(editorLines, range, hint) ==
    LET last == Min(Max(Len(editorLines) - 1, 0), range.endLine)
        kept == [i \in 1..(last + 1) |-> NewLineContent(editorLines[i])]
    IN  [lines |-> MarkSent(kept, range.startLine, range.endLine - range.startLine + 1),
         indentStyle |-> GetDocumentIndentStyle(editorLines, hint),
         firstSentLineIndex |-> range.startLine,
         firstRangeLine |-> range.startLine,
         currentState |-> InitialAfterFilePath,
         previousLine |-> NullManager,
         documentLineIndex |-> range.startLine,
         sentEdits |-> FALSE,
         documentLineLimit |-> Min(range.endLine, Len(kept) - 1),
         endDetected |-> FALSE, beginDetected |-> FALSE]

\* new StreamProcessor(...) of the inline variant, with its DocumentManager:
\* every line of the document, those of the three sections marked sent.
NewStreamProcessorInline(editorLines, contextSelection, hint) ==
    LET all == [i \in 1..Len(editorLines) |-> NewLineContent(editorLines[i])]
        a == MarkSent(all, contextSelection.above.first_line_index,
                      contextSelection.above.count)
        r == MarkSent(a, contextSelection.range.first_line_index,
                      contextSelection.range.count)
        b == MarkSent(r, contextSelection.below.first_line_index,
                      contextSelection.below.count)
    IN  [lines |-> b,
         indentStyle |-> GetDocumentIndentStyle(editorLines, hint),
         firstSentLineIndex |->
             IF contextSelection.above.has_content
             THEN contextSelection.above.first_line_index
             ELSE contextSelection.range.first_line_index,
         firstRangeLine |-> contextSelection.range.first_line_index,
         currentState |-> Initial,
         previousLine |-> NullManager,
         documentLineIndex |->
             IF contextSelection.above.has_content
             THEN contextSelection.above.first_line_index
             ELSE contextSelection.range.first_line_index,
         sentEdits |-> FALSE, documentLineLimit |-> 0,
         endDetected |-> FALSE, beginDetected |-> FALSE]

(***************************************************************************)
(* StreamProcessor: anchors                                                *)
(***************************************************************************)
\* findAnchor's null.
NoAnchor == -1

\* A plausible slip: the isSent mark is not looked at.
FindInitialAnchorAnyLine(s, lineContent) ==
    LET trimmedContent == Trim(lineContent)
        hits == {index \in s.firstSentLineIndex..(Len(s.lines) - 1) :
                    TrimmedContent(s.lines[index + 1]) = trimmedContent}
    IN  IF hits = {} THEN s.firstRangeLine
        ELSE CHOOSE index \in hits : \A other \in hits : index <= other

\* StreamProcessor.findInitialAnchor (both variants)
FindInitialAnchor(s, lineContent) ==
    LET trimmedContent == Trim(lineContent)
        hits == {index \in s.firstSentLineIndex..(Len(s.lines) - 1) :
                    /\ s.lines[index + 1].isSent
                    /\ TrimmedContent(s.lines[index + 1]) = trimmedContent}
    IN  IF hits = {} THEN s.firstRangeLine
        ELSE CHOOSE index \in hits : \A other \in hits : index <= other

\* StreamProcessor.findAnchor of the inline variant, from index on.
RECURSIVE FindAnchorInlineFrom(_, _, _)
FindAnchorInlineFrom(s, adjustedLine, index) ==
    IF index >= Len(s.lines) THEN NoAnchor
    ELSE LET line == s.lines[index + 1]
         IN  IF line.isSent /\ Len(TrimmedContent(line)) > 0
                    /\ IndentLevel(line, s.indentStyle) < adjustedLine.adjustedIndentLevel
             THEN NoAnchor
             ELSE IF line.isSent /\ line.content = adjustedLine.adjustedContent
                  THEN index
                  ELSE FindAnchorInlineFrom(s, adjustedLine, index + 1)

\* StreamProcessor.findAnchor of the inline variant: the anchor and the
\* adjusted line after the call.
FindAnchorInline(s, adjustedLine, startIndex) ==
    [anchor |-> FindAnchorInlineFrom(s, adjustedLine, Max(startIndex, 0)),
     adj |-> adjustedLine]

\* The start index past which the streaming findAnchor blanks the line.
AnchorIndexGuard == 10000

\* StreamProcessor.findAnchor of the streaming variant: never an anchor; past
\* the guard the adjusted line's content is blanked.
FindAnchorStreaming(s, adjustedLine, startIndex) ==
    [anchor |-> NoAnchor,
     adj |-> IF startIndex + 1 > AnchorIndexGuard
             THEN [adjustedLine EXCEPT !.adjustedContent = <<>>]
             ELSE adjustedLine]

(***************************************************************************)
(* StreamProcessor.processLine                                             *)
(***************************************************************************)
\* What processLine gives back: the processor when the call reaches its await
\* (the registry already changed), the processor when the call has returned
\* (cursor and flags assigned), the edits emitted, the operations called, and
\* whether the call threw.
Processed(atAwait, after, edits, ops, threw) ==
    [sp |-> atAwait, after |-> after, edits |-> edits, ops |-> ops, threw |-> threw]

\* processLine once the registry operation res has been called: the edit is
\* awaited with the registry changed, then the cursor and sentEdits are set.
AfterOperation(s, res, op, sent) ==
    Processed([s EXCEPT !.lines = res.lines],
              [s EXCEPT !.lines = res.lines, !.documentLineIndex = res.ret,
                        !.sentEdits = sent],
              res.edits, <<op>>, FALSE)

\* processLine when the reindentation r of the line is known: previousLine is
\* kept, and a negative indent level throws out of reindent.
AfterReindentFirst(s, r, initialAnchor) ==
    IF r.threw
    THEN Processed([s EXCEPT !.previousLine = r.m], [s EXCEPT !.previousLine = r.m],
                   <<>>, <<>>, TRUE)
    ELSE AfterOperation([s EXCEPT !.previousLine = r.m],
                        ReplaceLine(s.lines, initialAnchor, r.adj),
                        "replaceLine", s.sentEdits)

\* The first line handled, its initial anchor found.
ProcessFirstLineAt(s, line, initialAnchor) ==
    IF initialAnchor < 0 \/ initialAnchor >= Len(s.lines)
           \/ s.lines[initialAnchor + 1] = UndefinedLine
    THEN Processed(s, s, <<>>, <<>>, TRUE)
    ELSE AfterReindentFirst(
             s,
             Reindent(NewLineIndentManager(
                          IndentLevel(s.lines[initialAnchor + 1], s.indentStyle), line),
                      line, s.indentStyle),
             initialAnchor)

\* The first line handled: anchor, indentation rebase, replaceLine.
ProcessFirstLine(s, line) == ProcessFirstLineAt(s, line, FindInitialAnchor(s, line))

\* A plausible slip: the limit is not looked at, the line is always replaced.
ChooseOperationStreamingNoLimit(documentLineIndex, documentLineLimit, sentEdits, anchor) ==
    [op |-> "replaceLine", sent |-> sentEdits]

\* A plausible slip: the limit branch is taken at the limit only, not past it.
ChooseOperationStreamingAtLimit(documentLineIndex, documentLineLimit, sentEdits, anchor) ==
    IF anchor # NoAnchor THEN [op |-> "replaceLines", sent |-> TRUE]
    ELSE IF documentLineIndex = documentLineLimit
         THEN IF sentEdits THEN [op |-> "insertLineAfter", sent |-> TRUE]
              ELSE [op |-> "replaceLine", sent |-> TRUE]
         ELSE [op |-> "replaceLine", sent |-> sentEdits]

\* The branch the streaming processLine takes for a line after the first, and
\* sentEdits after it.
ChooseOperationStreaming(documentLineIndex, documentLineLimit, sentEdits, anchor) ==
    IF anchor # NoAnchor THEN [op |-> "replaceLines", sent |-> TRUE]
    ELSE IF documentLineIndex >= documentLineLimit
         THEN IF sentEdits THEN [op |-> "insertLineAfter", sent |-> TRUE]
              ELSE IF documentLineIndex > documentLineLimit /\ ~sentEdits
                   THEN [op |-> "appendLine", sent |-> TRUE]
                   ELSE [op |-> "replaceLine", sent |-> TRUE]
         ELSE [op |-> "replaceLine", sent |-> sentEdits]

\* A plausible slip: a line is handled whatever its context tag.
HandlesContextAny(context) == TRUE

\* A plausible slip: only the lines before the code block are left alone.
HandlesContextNotBefore(context) == context # BeforeCodeBlock

\* processLine's first test: only lines tagged InCodeBlock are handled.
HandlesContext(context) == context = InCodeBlock

\* The registry operation the streaming processLine calls for the choice c.
OperationStreaming(s, c, anchor, adjustedLine) ==
    CASE c.op = "replaceLines" ->
             ReplaceLines(s.lines, s.documentLineIndex, anchor, adjustedLine)
      [] c.op = "insertLineAfter" ->
             InsertLineAfterStreaming(s.lines, s.documentLineIndex - 1, adjustedLine)
      [] c.op = "appendLine" -> AppendLineStreaming(s.lines, adjustedLine)
      [] OTHER -> ReplaceLine(s.lines, s.documentLineIndex, adjustedLine)

\* The streaming processLine once the branch c is chosen.
AfterChoiceStreaming(s, c, f) ==
    AfterOperation(s, OperationStreaming(s, c, f.anchor, f.adj), c.op, c.sent)

\* The streaming processLine once findAnchor has answered f.
AfterAnchorStreaming(s, f) ==
    AfterChoiceStreaming(s,
                         ChooseOperationStreaming(s.documentLineIndex, s.documentLineLimit,
                                                  s.sentEdits, f.anchor),
                         f)

\* The streaming processLine for a line after the first, reindented as r.
AfterReindentStreaming(s, r) ==
    IF r.threw
    THEN Processed([s EXCEPT !.previousLine = r.m], [s EXCEPT !.previousLine = r.m],
                   <<>>, <<>>, TRUE)
    ELSE AfterAnchorStreaming([s EXCEPT !.previousLine = r.m],
                              FindAnchorStreaming(s, r.adj, s.documentLineIndex))

\* StreamProcessor.processLine of the streaming variant
ProcessLineStreaming(s, answerStreamLine) ==
    IF ~HandlesContext(answerStreamLine.context)
    THEN Processed(s, s, <<>>, <<>>, FALSE)
    ELSE IF ~s.previousLine.set THEN ProcessFirstLine(s, answerStreamLine.line)
    ELSE AfterReindentStreaming(
             s, Reindent(s.previousLine, answerStreamLine.line, s.indentStyle))

FilePathMarker == <<"/", "/", " ", "F", "I", "L", "E", "P", "A", "T", "H", ":">>
BeginMarker == <<"/", "/", " ", "B", "E", "G", "I", "N", ":">>
EndMarker == <<"/", "/", " ", "E", "N", "D", ":">>

\* A plausible slip: without an anchor the line at the cursor is always
\* replaced, past the last registry line too.
ChooseOperationInlineNoAppend(s, adjustedLine, anchor) ==
    IF anchor # NoAnchor THEN "replaceLines" ELSE "replaceLine"

\* The branch the inline processLine takes for a line after the first.
ChooseOperationInline(s, adjustedLine, anchor) ==
    IF anchor # NoAnchor THEN "replaceLines"
    ELSE IF s.documentLineIndex >= Len(s.lines) THEN "appendLine"
    ELSE LET currentLine == s.lines[s.documentLineIndex + 1]
         IN  IF \/ ~currentLine.isSent
                \/ adjustedLine.adjustedContent = <<>>
                \/ /\ currentLine.content # <<>>
                   /\ IndentLevel(currentLine, s.indentStyle) < adjustedLine.adjustedIndentLevel
             THEN "insertLineAfter"
             ELSE "replaceLine"

\* The registry operation the inline processLine calls for the branch op.
OperationInline(s, op, anchor, adjustedLine) ==
    CASE op = "replaceLines" ->
             ReplaceLines(s.lines, s.documentLineIndex, anchor, adjustedLine)
      [] op = "insertLineAfter" ->
             InsertLineAfterInline(s.lines, s.documentLineIndex - 1, adjustedLine)
      [] op = "appendLine" -> AppendLineInline(s.lines, adjustedLine)
      [] OTHER -> ReplaceLine(s.lines, s.documentLineIndex, adjustedLine)

\* The inline processLine has no await: one processor at and after the call.
Settled(s, p) == Processed(s, s, p.edits, p.ops, p.threw)

\* The inline processLine once the branch op is chosen; beginDetected is set.
AfterChoiceInline(s, op, f) ==
    Settled([s EXCEPT !.lines = OperationInline(s, op, f.anchor, f.adj).lines,
                      !.documentLineIndex = OperationInline(s, op, f.anchor, f.adj).ret,
                      !.beginDetected = TRUE],
            [edits |-> OperationInline(s, op, f.anchor, f.adj).edits,
             ops |-> <<op>>, threw |-> FALSE])

\* The inline processLine once findAnchor has answered f.
AfterAnchorInline(s, f) == AfterChoiceInline(s, ChooseOperationInline(s, f.adj, f.anchor), f)

\* The inline processLine for a line after the first, reindented as r.
AfterReindentInline(s, r) ==
    IF r.threw
    THEN Processed([s EXCEPT !.previousLine = r.m], [s EXCEPT !.previousLine = r.m],
                   <<>>, <<>>, TRUE)
    ELSE AfterAnchorInline([s EXCEPT !.previousLine = r.m],
                           FindAnchorInline(s, r.adj, s.documentLineIndex))

\* The inline processLine for the first line handled; beginDetected is set
\* when the call did not throw.
AfterFirstLineInline(s, p) ==
    Settled([p.after EXCEPT !.beginDetected = ~p.threw \/ s.beginDetected], p)

\* A plausible slip: lines are applied whether or not a marker was seen.
EndDetectedAlways(s) == TRUE

\* The inline processLine's test if (this.endDetected).
EndDetected(s) == s.endDetected

\* StreamProcessor.processLine of the inline variant
ProcessLineInline(s, answerStreamLine) ==
    IF ~HandlesContext(answerStreamLine.context)
    THEN Processed(s, s, <<>>, <<>>, FALSE)
    ELSE IF StartsWith(answerStreamLine.line, FilePathMarker) /\ s.currentState = Initial
    THEN Processed([s EXCEPT !.currentState = InitialAfterFilePath],
                   [s EXCEPT !.currentState = InitialAfterFilePath], <<>>, <<>>, FALSE)
    ELSE IF \/ StartsWith(answerStreamLine.line, BeginMarker)
            \/ StartsWith(answerStreamLine.line, EndMarker)
    THEN Processed([s EXCEPT !.endDetected = TRUE], [s EXCEPT !.endDetected = TRUE],
                   <<>>, <<>>, FALSE)
    ELSE IF ~EndDetected(s) THEN Processed(s, s, <<>>, <<>>, FALSE)
    ELSE IF ~s.previousLine.set
    THEN AfterFirstLineInline(s, ProcessFirstLine(s, answerStreamLine.line))
    ELSE AfterReindentInline(
             s, Reindent(s.previousLine, answerStreamLine.line, s.indentStyle))

(***************************************************************************)
(* Inputs                                                                  *)
(***************************************************************************)
\* The most stream events (messages) of one run.
MaxEvents == 5
\* The longest of the strings over Alphabet fed to an accumulator on its own.
MaxTextLen == 5

Alphabet == {BACKTICK, NL, "a"}

FenceLine == <<BACKTICK, BACKTICK, BACKTICK>>

\* Scenario A: the document and the one delta of the stream.
ScenarioDocument ==
    << <<"f", "u", "n", "c", "t", "i", "o", "n", " ", "f", "(", ")", " ", "{">>,
       <<" ", " ", "r", "e", "t", "u", "r", "n", " ", "1", ";">>,
       <<"}">> >>
ScenarioRewrite ==
    << <<"f", "u", "n", "c", "t", "i", "o", "n", " ", "f", "(", ")", " ", "{">>,
       <<" ", " ", "r", "e", "t", "u", "r", "n", " ", "2", ";">>,
       <<"}">> >>
ScenarioDelta ==
    FenceLine \o <<NL>> \o ScenarioRewrite[1] \o <<NL>> \o ScenarioRewrite[2] \o <<NL>>
        \o ScenarioRewrite[3] \o <<NL>> \o FenceLine \o <<NL>>

\* Scenario B: the rewrite has one more line right after the first.
ExtraLine ==
    <<" ", " ", "c", "o", "n", "s", "o", "l", "e", ".", "l", "o", "g", "(", "'", "x", "'", ")", ";">>
ScenarioBDelta ==
    FenceLine \o <<NL>> \o ScenarioDocument[1] \o <<NL>> \o ExtraLine \o <<NL>>
        \o ScenarioDocument[2] \o <<NL>> \o ScenarioDocument[3] \o <<NL>>
        \o FenceLine \o <<NL>>

\* A second document: a, an indented b, a again, and c.
SmallDocument == << <<"a">>, <<SP, SP, "b">>, <<"a">>, <<"c">> >>

DocumentPool == {ScenarioDocument, SmallDocument}

\* The edit ranges a Start event may carry (0-based, inclusive).
RangePool == {[startLine |-> 0, endLine |-> 2], [startLine |-> 1, endLine |-> 1]}

\* The deltas of the streaming variant.
DeltaPool ==
    { FenceLine \o <<NL>>,
      <<"a", NL>>,
      <<SP, SP, "b", NL, "c">>,
      ScenarioDelta,
      ScenarioBDelta }

\* The deltas of the inline variant.
InlineDeltaPool ==
    { FenceLine \o <<NL>> \o BeginMarker \o <<NL>>,
      <<"a", NL>>,
      <<SP, SP, "b", NL>>,
      <<SP, SP, "x", NL>>,
      <<"c", NL>>,
      FenceLine \o <<NL>> }

\* Deltas of the inline variant with its marker lines: a fence alone or with
\* "// BEGIN:", a "// FILEPATH:" line followed by "// END:", and code lines.
MarkerDeltaPool ==
    { FenceLine \o <<NL>> \o BeginMarker \o <<NL>>,
      FenceLine \o <<NL>>,
      FilePathMarker \o <<NL>> \o EndMarker \o <<NL>>,
      <<"a", NL>>,
      <<SP, SP, "b", NL>> }

\* A section of a context selection.
Section(first, count) ==
    [first_line_index |-> first, count |-> count, has_content |-> count > 0]

\* The context selections of the inline variant: above, range, below.
ContextPool ==
    { [above |-> Section(0, 0), range |-> Section(0, 3), below |-> Section(3, 0)],
      [above |-> Section(0, 1), range |-> Section(1, 2), below |-> Section(3, 1)],
      [above |-> Section(0, 0), range |-> Section(0, 4), below |-> Section(4, 0)] }

\* Every string over Alphabet of at most n characters.
RECURSIVE StringsUpTo(_)
StringsUpTo(n) ==
    IF n = 0 THEN {<<>>}
    ELSE LET shorter == StringsUpTo(n - 1)
         IN  shorter \cup {Append(s, c) : s \in shorter, c \in Alphabet}

\* Longer strings with a whole fenced block and text after it.
SpecialTexts ==
    { FenceLine \o <<NL, "a", NL>> \o FenceLine \o <<NL, "a", NL>>,
      <<"a", NL>> \o FenceLine \o <<NL>> \o FenceLine \o <<"a", NL, "a", NL, "a">> }

TextPool == StringsUpTo(MaxTextLen) \cup SpecialTexts

(***************************************************************************)
(* An accumulator on its own: a string s cut into consecutive chunks, fed  *)
(* chunk by chunk, with getLine called at any time                         *)
(***************************************************************************)
NoSession == [active |-> FALSE]

AccVars == <<variant, acc, text, fed, drained, lastLine>>
SessionVars == <<sp, textDocument, limiter, token, pc, nEvents, streamed, issued, session>>

AccInit ==
    /\ variant \in {"inline", "streaming"}
    /\ text \in TextPool
    /\ fed = 0
    /\ acc = NewAccumulator
    /\ drained = <<>>
    /\ lastLine = NullLine
    /\ sp = NoProcessor
    /\ textDocument = <<>>
    /\ limiter = <<>>
    /\ token = FALSE
    /\ pc = "accumulate"
    /\ nEvents = 0
    /\ streamed = <<>>
    /\ issued = <<>>
    /\ session = NoSession

\* addDelta with the next chunk of s, of any length.
AccAddDelta ==
    /\ pc = "accumulate"
    /\ \E k \in 1..(Len(text) - fed) :
          /\ acc' = AddDelta(variant, acc, SubSeq(text, fed + 1, fed + k))
          /\ fed' = fed + k
    /\ UNCHANGED <<variant, text, drained, lastLine>>
    /\ UNCHANGED SessionVars

\* addDelta(null)
AccAddNull ==
    /\ pc = "accumulate"
    /\ acc' = AddDelta(variant, acc, NullDelta)
    /\ UNCHANGED <<variant, text, fed, drained, lastLine>>
    /\ UNCHANGED SessionVars

\* getLine
AccGetLine ==
    /\ pc = "accumulate"
    /\ LET g == GetLine(acc)
       IN  /\ acc' = g.acc
           /\ lastLine' = g.line
           /\ drained' = IF g.line = NullLine THEN drained ELSE Append(drained, g.line)
    /\ UNCHANGED <<variant, text, fed>>
    /\ UNCHANGED SessionVars

AccNext == AccAddDelta \/ AccAddNull \/ AccGetLine

SpecAcc == AccInit /\ [][AccNext]_vars

(***************************************************************************)
(* Claims about the accumulators                                           *)
(***************************************************************************)
\* Every line the accumulator has queued so far, drained or not.
Produced == drained \o acc.lines

\* The number of fence lines among the first n of ls.
FencesIn(ls, n) == Cardinality({i \in 1..n : StartsWithFence(ls[i].line)})

\* C3: accumulator split invariance.  However the string was cut into chunks
\* and whenever getLine was called, the lines queued so far, with their context
\* tags, are the lines queued when the text fed so far is given to a new
\* accumulator in one addDelta call (and so is the text still buffered).
C3_SplitInvariance ==
    pc = "accumulate" =>
        LET once == AddDelta(variant, NewAccumulator, SubSeq(text, 1, fed))
        IN  /\ Produced = once.lines
            /\ acc.accumulator = once.accumulator

\* C3 witness: the string was cut in the middle of a line (text is buffered,
\* more is to come), after lines were queued, some drained and some not.
C3_Witness ==
    /\ pc = "accumulate"
    /\ 0 < fed /\ fed < Len(text)
    /\ acc.accumulator # <<>>
    /\ Len(drained) >= 1 /\ Len(acc.lines) >= 1
    /\ \E i \in 1..Len(Produced) : Produced[i].context = InCodeBlock

ContextRank(c) ==
    CASE c = BeforeCodeBlock -> 0 [] c = InCodeBlock -> 1 [] OTHER -> 2

\* C5: the parse context is a one-way state machine.  Along the queued lines
\* the tag never moves backward; a line that is no fence is tagged
\* BeforeCodeBlock when no fence precedes it, InCodeBlock when exactly one
\* does, and AfterCodeBlock when the closing fence precedes it.
C5_OneWayContext ==
    pc = "accumulate" =>
        \A k \in 1..Len(Produced) :
            /\ k > 1 => ContextRank(Produced[k - 1].context) <= ContextRank(Produced[k].context)
            /\ ~StartsWithFence(Produced[k].line) =>
                  Produced[k].context =
                      CASE FencesIn(Produced, k - 1) = 0 -> BeforeCodeBlock
                        [] FencesIn(Produced, k - 1) = 1 -> InCodeBlock
                        [] OTHER -> AfterCodeBlock

(***************************************************************************)
(* reportAgentEventsToChat: the event loop of the streaming variant, one   *)
(* edit_request_id, the edits going through the limiter                    *)
(***************************************************************************)
\* The loop is draining the accumulator (after a Delta or an End event).
Draining == {"drainDelta", "drainEnd"}
\* processLine is suspended on "await this.limiter.queue(...)".
Awaiting == {"awaitDelta", "awaitEnd"}

AwaitOf(p) == IF p = "drainDelta" THEN "awaitDelta" ELSE "awaitEnd"
DrainOf(p) == IF p = "awaitDelta" THEN "drainDelta" ELSE "drainEnd"

\* A plausible slip: the edit is queued and the call goes on without awaiting.
AfterQueueNoAwait(p) == p

\* Where the loop stands once an operation has queued its edit: suspended
\* until the limiter has run it.
AfterQueue(p) == AwaitOf(p)

Init ==
    /\ variant = "streaming"
    /\ textDocument \in DocumentPool
    /\ acc = NewAccumulator
    /\ sp = NoProcessor
    /\ session = NoSession
    /\ limiter = <<>>
    /\ token = FALSE
    /\ pc = "loop"
    /\ nEvents = 0
    /\ streamed = <<>>
    /\ issued = <<>>
    /\ drained = <<>>
    /\ lastLine = NullLine
    /\ text = <<>>
    /\ fed = 0

\* token.isCancellationRequested becomes true: while the loop waits for the
\* next event or for the limiter (a synchronous stretch is not interrupted).
Cancel ==
    /\ pc \in {"loop"} \cup Awaiting
    /\ ~token
    /\ token' = TRUE
    /\ UNCHANGED <<variant, acc, text, fed, drained, lastLine, sp, textDocument,
                   limiter, pc, nEvents, streamed, issued, session>>

\* The loop finds the token set when the next event arrives: stopAgentProbe, break.
StopOnCancel ==
    /\ pc = "loop"
    /\ token
    /\ pc' = "done"
    /\ UNCHANGED <<variant, acc, text, fed, drained, lastLine, sp, textDocument,
                   limiter, token, nEvents, streamed, issued, session>>

\* EditCodeStreaming, event Start: a new accumulator and a new StreamProcessor
\* over the document as it is now.
EventStart ==
    /\ pc = "loop" /\ ~token /\ nEvents < MaxEvents
    /\ ~session.active
    /\ \E range \in RangePool :
          /\ range.endLine <= Len(textDocument) - 1
          /\ sp' = NewStreamProcessorStreaming(textDocument, range, NullStyle)
          /\ session' = [active |-> TRUE, range |-> range, document |-> textDocument,
                         sp |-> NewStreamProcessorStreaming(textDocument, range, NullStyle),
                         below |-> SubSeq(textDocument, range.endLine + 2, Len(textDocument)),
                         opCalls |-> 0,
                         rejectedAt |-> [lines |-> -1, edits |-> -1]]
    /\ acc' = NewAccumulator
    /\ streamed' = <<>>
    /\ issued' = <<>>
    /\ drained' = <<>>
    /\ lastLine' = NullLine
    /\ nEvents' = nEvents + 1
    /\ UNCHANGED <<variant, text, fed, textDocument, limiter, token, pc>>

\* EditCodeStreaming, event Delta: addDelta, then the drain loop; nothing when
\* the id has no session.
EventDelta ==
    /\ pc = "loop" /\ ~token /\ nEvents < MaxEvents
    /\ \E delta \in DeltaPool :
          IF session.active
          THEN /\ acc' = AddDeltaStreaming(acc, delta)
               /\ streamed' = streamed \o delta
               /\ pc' = "drainDelta"
          ELSE UNCHANGED <<acc, streamed, pc>>
    /\ nEvents' = nEvents + 1
    /\ UNCHANGED <<variant, text, fed, drained, lastLine, sp, textDocument,
                   limiter, token, issued, session>>

\* EditCodeStreaming, event End: the drain loop, then the session is deleted;
\* without a session editsManager is undefined and reading it throws.
EventEnd ==
    /\ pc = "loop" /\ ~token /\ nEvents < MaxEvents
    /\ pc' = IF session.active THEN "drainEnd" ELSE "threw"
    /\ nEvents' = nEvents + 1
    /\ UNCHANGED <<variant, acc, text, fed, drained, lastLine, sp, textDocument,
                   limiter, token, streamed, issued, session>>

\* EditRequestFinished, or the stream ends.
EventFinished ==
    /\ pc = "loop" /\ ~token
    /\ pc' = "done"
    /\ UNCHANGED <<variant, acc, text, fed, drained, lastLine, sp, textDocument,
                   limiter, token, nEvents, streamed, issued, session>>

\* The edits of one processLine call as entries of the history: the edit,
\* the number of the streamed line it came from, the operation, whether
\* cancellation had been requested when the edit was emitted, and the cursor
\* (documentLineIndex) when processLine was called.
Entries(p, lineNo, cancelled, cursor) ==
    [i \in 1..Len(p.edits) |->
        [edit |-> p.edits[i], lineNo |-> lineNo, op |-> p.ops[Min(i, Len(p.ops))],
         cancelled |-> cancelled, cursor |-> cursor]]

\* The edits as the limiter holds them: each with the processor state the
\* suspended call resumes to.
Queued(p) == [i \in 1..Len(p.edits) |-> [edit |-> p.edits[i], resume |-> p.after]]

\* One turn of a drain loop: getLine; on null the loop ends (and End deletes
\* the session); otherwise processLine, up to its await if it queues an edit.
DrainLine ==
    /\ pc \in Draining
    /\ LET g == GetLine(acc)
           p == ProcessLineStreaming(sp, g.line)
       IN  /\ lastLine' = g.line
           /\ IF g.line = NullLine
              THEN /\ pc' = "loop"
                   /\ IF pc = "drainEnd"
                      THEN /\ session' = [session EXCEPT !.active = FALSE]
                           /\ sp' = NoProcessor
                           /\ acc' = NewAccumulator
                      ELSE UNCHANGED <<session, sp, acc>>
                   /\ UNCHANGED <<drained, limiter, issued>>
              ELSE /\ acc' = g.acc
                   /\ drained' = Append(drained, g.line)
                   /\ session' = [session EXCEPT !.opCalls = @ + Len(p.ops)]
                   /\ issued' = issued \o Entries(p, Len(drained) + 1, token,
                                                sp.documentLineIndex)
                   /\ limiter' = limiter \o Queued(p)
                   /\ IF p.threw
                      THEN pc' = "threw" /\ sp' = p.sp
                      ELSE IF p.edits = <<>>
                           THEN pc' = pc /\ sp' = p.after
                           ELSE /\ pc' = AfterQueue(pc)
                                /\ sp' = IF AfterQueue(pc) \in Awaiting
                                         THEN p.sp ELSE p.after
    /\ UNCHANGED <<variant, text, fed, textDocument, token, nEvents, streamed>>

\* The limiter runs its oldest task: progress.codeEdit applies the edit to the
\* document; the call awaiting it resumes and assigns the cursor.
CodeEdit ==
    /\ limiter # <<>>
    /\ textDocument' = ApplyEdit(textDocument, Head(limiter).edit)
    /\ limiter' = Tail(limiter)
    /\ IF pc \in Awaiting
       THEN pc' = DrainOf(pc) /\ sp' = Head(limiter).resume
       ELSE UNCHANGED <<pc, sp>>
    /\ UNCHANGED <<variant, acc, text, fed, drained, lastLine, token, nEvents,
                   streamed, issued, session>>

\* A plausible slip: the rejection is caught and the drain loop goes on.
AfterRejectionSwallowed(p) == DrainOf(p)

\* Where the loop stands once the awaited edit has been rejected: nothing
\* catches the rejection, reportAgentEventsToChat itself rejects.
AfterRejection(p) == "rejected"

\* The limiter runs its oldest task and progress.codeEdit rejects: the edit is
\* not applied and the call awaiting it throws, before it assigns the cursor.
CodeEditRejected ==
    /\ limiter # <<>>
    /\ pc \in Awaiting
    /\ limiter' = Tail(limiter)
    /\ pc' = AfterRejection(pc)
    /\ session' = [session EXCEPT
                      !.rejectedAt = [lines |-> Len(drained), edits |-> Len(issued)]]
    /\ UNCHANGED <<variant, acc, text, fed, drained, lastLine, sp, textDocument, token,
                   nEvents, streamed, issued>>

Next ==
    \/ Cancel
    \/ StopOnCancel
    \/ EventStart
    \/ EventDelta
    \/ EventEnd
    \/ EventFinished
    \/ DrainLine
    \/ CodeEdit
    \/ CodeEditRejected

Spec == Init /\ [][Next]_vars

(***************************************************************************)
(* reportFromStreamToEditorSessionProgress: the message loop of the inline *)
(* variant; processLine is synchronous and every edit is reported to the   *)
(* editor at once                                                          *)
(***************************************************************************)
NoInlineSession ==
    [active |-> FALSE, skillUsed |-> "undefined", document |-> <<>>,
     sp |-> NoProcessor, opCalls |-> 0, rejected |-> 0,
     finalAnswer |-> <<>>, returned |-> <<>>, drainedAtCancel |-> -1,
     prev |-> NoProcessor]

\* What string concatenation makes of an AnswerStreamLine object.
ObjectString ==
    <<"[", "o", "b", "j", "e", "c", "t", " ", "O", "b", "j", "e", "c", "t", "]">>

\* finalAnswer = finalAnswer + currentLine + '\n', currentLine being the object
\* getLine returned.
AddToFinalAnswer(finalAnswer, currentLine) == finalAnswer \o ObjectString \o <<NL>>

\* The value the function returns, whatever finalAnswer holds: return ''.
ReturnValue(finalAnswer) == <<>>

\* The text of the lines ls, each followed by a newline.
RECURSIVE TextOf(_)
TextOf(ls) == IF ls = <<>> THEN <<>> ELSE Head(ls).line \o <<NL>> \o TextOf(Tail(ls))

\* A context selection of the document: its three sections lie in it.
Fits(contextSelection, editorLines) ==
    /\ contextSelection.above.first_line_index + contextSelection.above.count
           <= Len(editorLines)
    /\ contextSelection.range.first_line_index + contextSelection.range.count
           <= Len(editorLines)
    /\ contextSelection.below.first_line_index + contextSelection.below.count
           <= Len(editorLines)

InitInline ==
    /\ variant = "inline"
    /\ textDocument \in DocumentPool
    /\ acc = NewAccumulator
    /\ sp = NoProcessor
    /\ session = NoInlineSession
    /\ limiter = <<>>
    /\ token = FALSE
    /\ pc = "begin"
    /\ nEvents = 0
    /\ streamed = <<>>
    /\ issued = <<>>
    /\ drained = <<>>
    /\ lastLine = NullLine
    /\ text = <<>>
    /\ fed = 0

\* token.isCancellationRequested becomes true while the function waits for a
\* message; the number of lines drained by then is remembered.
InlineCancel ==
    /\ pc \in {"begin", "inlineLoop"}
    /\ ~token
    /\ token' = TRUE
    /\ session' = [session EXCEPT !.drainedAtCancel = Len(drained)]
    /\ UNCHANGED <<variant, acc, text, fed, drained, lastLine, sp, textDocument,
                   limiter, pc, nEvents, streamed, issued>>

\* The two checks of the token before the loop, around the first message.
InlineBegin ==
    /\ pc = "begin"
    /\ pc' = IF token THEN "done" ELSE "inlineLoop"
    /\ session' = IF token THEN [session EXCEPT !.returned = <<>>] ELSE session
    /\ UNCHANGED <<variant, acc, text, fed, drained, lastLine, sp, textDocument,
                   limiter, token, nEvents, streamed, issued>>

\* A Pending message whose last step names the skill.
MessagePending ==
    /\ pc = "inlineLoop" /\ nEvents < MaxEvents
    /\ \E lastStep \in {"Doc", "Edit"} :
          session' = [session EXCEPT !.skillUsed = lastStep]
    /\ nEvents' = nEvents + 1
    /\ UNCHANGED <<variant, acc, text, fed, drained, lastLine, sp, textDocument,
                   limiter, token, pc, streamed, issued>>

\* A StreamingAnswer message: with the Edit skill, addDelta, the processor is
\* made over the document on the first such message, then the drain loop.
StreamingAnswerFrom(pool) ==
    /\ pc = "inlineLoop" /\ nEvents < MaxEvents
    /\ \E delta \in pool \cup {NullDelta}, contextSelection \in ContextPool :
          IF session.skillUsed = "Edit"
          THEN /\ acc' = AddDeltaInline(acc, delta)
               /\ streamed' = IF delta = NullDelta THEN streamed ELSE streamed \o delta
               /\ pc' = "drainInline"
               /\ IF ~session.active
                  THEN /\ Fits(contextSelection, textDocument)
                       /\ sp' = NewStreamProcessorInline(textDocument, contextSelection,
                                                         NullStyle)
                       /\ session' =
                              [session EXCEPT
                                  !.active = TRUE,
                                  !.document = textDocument,
                                  !.sp = NewStreamProcessorInline(
                                             textDocument, contextSelection, NullStyle)]
                  ELSE UNCHANGED <<sp, session>>
          ELSE UNCHANGED <<acc, streamed, pc, sp, session>>
    /\ nEvents' = nEvents + 1
    /\ UNCHANGED <<variant, text, fed, drained, lastLine, textDocument, limiter,
                   token, issued>>

MessageStreamingAnswer == StreamingAnswerFrom(InlineDeltaPool)

\* A StreamingAnswer message of a reply that carries the marker lines.
MessageWithMarkers == StreamingAnswerFrom(MarkerDeltaPool)

\* One turn of the inline drain loop: getLine; on null the loop ends; otherwise
\* processLine, not awaited: its edits reach the editor as it reports them and
\* a throw rejects a promise nobody looks at.
InlineDrainLine ==
    /\ pc = "drainInline"
    /\ LET g == GetLine(acc)
           p == ProcessLineInline(sp, g.line)
       IN  /\ lastLine' = g.line
           /\ IF g.line = NullLine
              THEN /\ pc' = "inlineLoop"
                   /\ UNCHANGED <<acc, drained, session, sp, issued, textDocument>>
              ELSE /\ acc' = g.acc
                   /\ drained' = Append(drained, g.line)
                   /\ session' = [session EXCEPT
                                     !.opCalls = @ + Len(p.ops),
                                     !.rejected = @ + (IF p.threw THEN 1 ELSE 0),
                                     !.finalAnswer = AddToFinalAnswer(@, g.line),
                                     !.prev = sp]
                   /\ issued' = issued \o Entries(p, Len(drained) + 1, token,
                                                sp.documentLineIndex)
                   /\ textDocument' = ApplyEdits(textDocument, p.edits)
                   /\ sp' = p.after
                   /\ pc' = pc
    /\ UNCHANGED <<variant, text, fed, limiter, token, nEvents, streamed>>

\* The stream ends: the function returns.
InlineFinished ==
    /\ pc = "inlineLoop"
    /\ pc' = "done"
    /\ session' = [session EXCEPT !.returned = ReturnValue(session.finalAnswer)]
    /\ UNCHANGED <<variant, acc, text, fed, drained, lastLine, sp, textDocument,
                   limiter, token, nEvents, streamed, issued>>

NextInline ==
    \/ InlineCancel
    \/ InlineBegin
    \/ MessagePending
    \/ MessageStreamingAnswer
    \/ InlineDrainLine
    \/ InlineFinished

SpecInline == InitInline /\ [][NextInline]_vars

\* The inline variant over replies with marker lines.
NextMarkers ==
    \/ InlineCancel
    \/ InlineBegin
    \/ MessagePending
    \/ MessageWithMarkers
    \/ InlineDrainLine
    \/ InlineFinished

SpecMarkers == InitInline /\ [][NextMarkers]_vars

(***************************************************************************)
(* Claims about the sessions                                               *)
(***************************************************************************)
\* The registry's lines are the first lines of the live document.
RegistryInDocument ==
    /\ Len(sp.lines) <= Len(textDocument)
    /\ \A i \in 1..Len(sp.lines) : textDocument[i] = sp.lines[i].content

\* C1: the live document refines the registry.  In the inline variant, where
\* every emitted edit is applied at once and in issue order, the document's
\* lines at indices 0..getLineCount()-1 are the registry's lines after every
\* operation.
C1_DocumentIsRegistry ==
    (variant = "inline" /\ session.active) => RegistryInDocument

\* C2: Scenario A.  With the document of Scenario A, the edit range [0,2],
\* style Spaces{2} and the one delta of the scenario, once the stream is fully
\* drained and every edit applied the document is the three-line rewrite.
C2_ScenarioA ==
    (/\ variant = "streaming"
     /\ session.active
     /\ session.document = ScenarioDocument
     /\ session.range = [startLine |-> 0, endLine |-> 2]
     /\ session.sp.indentStyle = [kind |-> Spaces, indentSize |-> 2]
     /\ streamed = ScenarioDelta
     /\ pc = "loop" /\ acc.lines = <<>> /\ limiter = <<>>)
        => textDocument = ScenarioRewrite

\* C4: only code lines inside the fenced block cause an edit.  Every edit
\* issued comes from a streamed line that is no fence line and that has
\* exactly one fence line (the opening one) before it.
C4_OnlyCodeLinesEdit ==
    variant = "streaming" =>
        \A i \in 1..Len(issued) :
            /\ ~StartsWithFence(drained[issued[i].lineNo].line)
            /\ FencesIn(drained, issued[i].lineNo - 1) = 1

\* No line of the text streamed so far is a fence line.
NoFenceStreamed ==
    \A i \in 1..Len(SplitLines(streamed)) : ~StartsWithFence(SplitLines(streamed)[i])

\* C6: a stream with no fence line produces zero edits and no error; the
\* registry and the cursor stay as constructed and the document as it was.
C6_NoFenceNoEdit ==
    (variant = "streaming" /\ session.active /\ NoFenceStreamed) =>
        /\ issued = <<>>
        /\ limiter = <<>>
        /\ sp = session.sp
        /\ textDocument = session.document
        /\ pc # "threw"

\* C6 witness: a session has drained several streamed lines, none a fence.
C6_Witness ==
    /\ variant = "streaming" /\ session.active /\ NoFenceStreamed
    /\ Len(drained) >= 3
    /\ pc = "loop"

\* C7: in the limit-aware variant the document lines below the edit range's
\* end line at the start of the session are still there, unchanged and in
\* order, at the end of the document, whatever has been processed.
C7_BelowPreserved ==
    (variant = "streaming" /\ session.active) =>
        /\ Len(textDocument) >= Len(session.below)
        /\ SubSeq(textDocument, Len(textDocument) - Len(session.below) + 1,
                  Len(textDocument)) = session.below

\* C7 witness: lines are below the range, the rewrite has grown past the range
\* (lines were appended and inserted) and every edit has been applied.
C7_Witness ==
    /\ variant = "streaming" /\ session.active
    /\ session.below # <<>>
    /\ limiter = <<>>
    /\ \E i \in 1..Len(issued) : issued[i].op = "appendLine"
    /\ \E i \in 1..Len(issued) : issued[i].op = "insertLineAfter"
    /\ Len(textDocument) > Len(session.document)

\* C8: each call of replaceLine, replaceLines, appendLine or insertLineAfter
\* emits exactly one edit: at every moment the edits emitted are as many as
\* the calls made.
C8_OneEditPerCall ==
    variant = "inline" => Len(issued) = session.opCalls

\* C8 witness: replaceLine, replaceLines with startIndex = endIndex and
\* insertLineAfter have been called.
C8_Witness ==
    /\ variant = "inline"
    /\ session.opCalls >= 3
    /\ \E i \in 1..Len(issued) : issued[i].op = "replaceLine"
    /\ \E i \in 1..Len(issued) :
          issued[i].op = "replaceLines" /\ issued[i].edit.startLine = issued[i].edit.endLine
    /\ \E i \in 1..Len(issued) : issued[i].op = "insertLineAfter"

\* C9: at most one edit is in flight, and while one is the processor is
\* suspended on it: no further line is drained before it has completed.
C9_OneEditInFlight ==
    variant = "streaming" =>
        /\ Len(limiter) <= 1
        /\ limiter # <<>> => pc \in Awaiting

\* C9 witness: an edit is in flight after earlier edits have completed, with
\* further lines of the same delta already queued in the accumulator.
C9_Witness ==
    /\ variant = "streaming"
    /\ Len(limiter) = 1
    /\ Len(issued) >= 2
    /\ acc.lines # <<>>
    /\ pc \in Awaiting

\* C10: once cancellation has been requested no further edit is submitted:
\* no edit was emitted with the token set.
C10_NoEditAfterCancel ==
    variant = "streaming" => \A i \in 1..Len(issued) : ~issued[i].cancelled

\* C11: Scenario D.  When cancellation is requested after the first of three
\* streamed code lines has been processed (each line in a message of its
\* own), exactly one edit has been emitted in total when the function returns,
\* and the value returned is the text of the lines drained before the
\* cancellation.
C11_ScenarioD ==
    (/\ variant = "inline" /\ pc = "done" /\ token
     /\ session.active
     /\ Len(issued) >= 1 /\ ~issued[1].cancelled
     /\ session.drainedAtCancel = issued[1].lineNo)
        => /\ Len(issued) = 1
           /\ session.returned = TextOf(SubSeq(drained, 1, session.drainedAtCancel))

(***************************************************************************)
(* LineIndentManager on its own: constructed from a reference indent level *)
(* and a first streamed line, then reindent called with any lines          *)
(***************************************************************************)
\* The highest reference indent level (the anchor line's level).
MaxLevel == 2

\* The document styles reindent is given.
StylePool ==
    { [kind |-> Spaces, indentSize |-> 1], [kind |-> Spaces, indentSize |-> 2],
      [kind |-> Spaces, indentSize |-> 4], [kind |-> Tabs, indentSize |-> 0] }

\* The streamed lines: not indented, indented by blanks or tabs, blank, empty.
IndentLinePool ==
    { <<>>, <<"a">>, <<SP>>, <<SP, SP>>, <<SP, "a">>, <<SP, SP, "a">>,
      <<SP, SP, SP, SP, "a">>, <<TAB, "a">>, <<TAB, TAB, "a">> }

NoIndentRun ==
    [active |-> FALSE, reindented |-> FALSE, referenceLevel |-> 0, firstLine |-> <<>>,
     result |-> [adj |-> AdjustedLineContent(<<>>, 0, <<>>, 0), m |-> NullManager,
                 threw |-> FALSE]]

IndentInit ==
    /\ variant = "inline"
    /\ \E style \in StylePool : sp = [NoProcessor EXCEPT !.indentStyle = style]
    /\ session = NoIndentRun
    /\ text = <<>>
    /\ pc = "construct"
    /\ acc = NewAccumulator
    /\ textDocument = <<>>
    /\ limiter = <<>>
    /\ token = FALSE
    /\ nEvents = 0
    /\ streamed = <<>>
    /\ issued = <<>>
    /\ drained = <<>>
    /\ lastLine = NullLine
    /\ fed = 0

\* new LineIndentManager(indentLevel, line)
IndentConstruct ==
    /\ pc = "construct"
    /\ \E indentLevel \in 0..MaxLevel, line \in IndentLinePool :
          /\ sp' = [sp EXCEPT !.previousLine = NewLineIndentManager(indentLevel, line)]
          /\ session' = [session EXCEPT !.referenceLevel = indentLevel,
                                        !.firstLine = line]
    /\ pc' = "reindent"
    /\ UNCHANGED <<variant, acc, text, fed, drained, lastLine, textDocument, limiter,
                   token, nEvents, streamed, issued>>

\* previousLine.reindent(line, indentStyle); the manager keeps the reply style
\* it guessed even when repeat() then throws.
IndentReindent ==
    /\ pc = "reindent"
    /\ \E line \in IndentLinePool :
          /\ text' = line
          /\ session' = [session EXCEPT
                            !.reindented = TRUE,
                            !.result = Reindent(sp.previousLine, line, sp.indentStyle)]
          /\ sp' = [sp EXCEPT
                       !.previousLine = Reindent(sp.previousLine, line, sp.indentStyle).m]
    /\ UNCHANGED <<variant, acc, fed, drained, lastLine, textDocument, limiter, token,
                   pc, nEvents, streamed, issued>>

IndentNext == IndentConstruct \/ IndentReindent

SpecIndent == IndentInit /\ [][IndentNext]_vars

\* C12: reindent never produces a negative adjustedIndentLevel and raises no
\* error: when indentDelta is larger than the line's own level the new level
\* is 0.
C12_NeverNegative ==
    (pc = "reindent" /\ session.reindented) =>
        /\ session.result.adj.adjustedIndentLevel >= 0
        /\ ~session.result.threw

\* The level LineIndentManager.guessIndentLevel gives the first streamed line.
FirstStreamedLevel == ManagerGuessIndentLevel(NullManager, session.firstLine).level

\* The level LineIndentManager.guessIndentLevel gives the line just reindented.
OwnLevel == ManagerGuessIndentLevel(sp.previousLine, text).level

C14_RoundTrip ==
    (pc = "reindent" /\ session.reindented /\ text # <<>> /\ ~session.result.threw) =>
        GuessIndentLevel(session.result.adj.adjustedContent, sp.indentStyle).level
            = session.result.adj.adjustedIndentLevel

(***************************************************************************)
(* DocumentManager on its own: constructed over a document and a range,    *)
(* then its four operations called on lines it holds                       *)
(***************************************************************************)
\* The number of operations called on one registry.
MaxCalls == 2

\* The contents written by the operations.
RegistryContentPool == { <<"x">>, <<SP, SP, "y">>, <<"a">> }

Adjusted(content) == AdjustedLineContent(content, 0, content, 0)

\* The registry as constructed, the edit range it was given, and the last
\* operation called on it: its arguments, the lines before it and its result.
\* The ranges the registry is constructed with: those of the Start events and
\* two that end at or past the last line of a document of the pool.
RegistryRangePool ==
    RangePool \cup {[startLine |-> 0, endLine |-> 3], [startLine |-> 1, endLine |-> 4]}

RegistryRun(lines, startLine, endLine) ==
    [active |-> FALSE, constructed |-> lines, startLine |-> startLine, endLine |-> endLine,
     name |-> "constructor", index |-> 0, endIndex |-> 0, content |-> <<>>,
     level |-> 0, before |-> lines, ret |-> 0]

RegistryInit ==
    /\ variant \in {"streaming", "inline"}
    /\ textDocument \in DocumentPool
    /\ \/ /\ variant = "streaming"
          /\ \E range \in RegistryRangePool :
                IF ConstructionThrows(textDocument, range)
                THEN /\ sp = NoProcessor
                     /\ session = RegistryRun(<<>>, range.startLine, range.endLine)
                     /\ pc = "threw"
                ELSE /\ sp = NewStreamProcessorStreaming(textDocument, range, NullStyle)
                     /\ session = RegistryRun(sp.lines, range.startLine, range.endLine)
                     /\ pc = "registry"
       \/ /\ variant = "inline"
          /\ \E contextSelection \in ContextPool :
                /\ Fits(contextSelection, textDocument)
                /\ sp = NewStreamProcessorInline(textDocument, contextSelection, NullStyle)
                /\ session = RegistryRun(sp.lines,
                                 contextSelection.range.first_line_index,
                                 contextSelection.range.first_line_index
                                     + contextSelection.range.count - 1)
                /\ pc = "registry"
    /\ acc = NewAccumulator
    /\ text = <<>>
    /\ limiter = <<>>
    /\ token = FALSE
    /\ nEvents = 0
    /\ streamed = <<>>
    /\ issued = <<>>
    /\ drained = <<>>
    /\ lastLine = NullLine
    /\ fed = 0

\* The operation name(index, endIndex, content) has given res.
RegistryCalled(name, index, endIndex, content, res) ==
    /\ nEvents < MaxCalls
    /\ nEvents' = nEvents + 1
    /\ sp' = [sp EXCEPT !.lines = res.lines, !.documentLineIndex = res.ret]
    /\ session' = [session EXCEPT !.name = name, !.index = index, !.endIndex = endIndex,
                                  !.content = content, !.before = sp.lines,
                                  !.ret = res.ret]
    /\ UNCHANGED <<variant, acc, text, fed, drained, lastLine, textDocument, limiter,
                   token, pc, streamed, issued>>

RegistryReplaceLine ==
    /\ pc = "registry"
    /\ \E index \in 0..(Len(sp.lines) - 1), content \in RegistryContentPool :
          RegistryCalled("replaceLine", index, index, content,
                         ReplaceLine(sp.lines, index, Adjusted(content)))

RegistryReplaceLines ==
    /\ pc = "registry"
    /\ \E startIndex \in 0..(Len(sp.lines) - 1), content \in RegistryContentPool :
          \E endIndex \in startIndex..(Len(sp.lines) - 1) :
             RegistryCalled("replaceLines", startIndex, endIndex, content,
                            ReplaceLines(sp.lines, startIndex, endIndex, Adjusted(content)))

RegistryAppendLine ==
    /\ pc = "registry"
    /\ \E content \in RegistryContentPool :
          RegistryCalled("appendLine", 0, 0, content,
                         IF variant = "inline"
                         THEN AppendLineInline(sp.lines, Adjusted(content))
                         ELSE AppendLineStreaming(sp.lines, Adjusted(content)))

RegistryInsertLineAfter ==
    /\ pc = "registry"
    /\ \E index \in (-1)..(Len(sp.lines) - 1), content \in RegistryContentPool :
          RegistryCalled("insertLineAfter", index, index, content,
                         IF variant = "inline"
                         THEN InsertLineAfterInline(sp.lines, index, Adjusted(content))
                         ELSE InsertLineAfterStreaming(sp.lines, index, Adjusted(content)))

\* findAnchor of the variant, called on processor s from startIndex.
FindAnchor(s, adjustedLine, startIndex) ==
    IF variant = "inline" THEN FindAnchorInline(s, adjustedLine, startIndex)
    ELSE FindAnchorStreaming(s, adjustedLine, startIndex)

\* findAnchor(adjustedLine, startIndex) called on the registry as it is, with
\* an adjusted line of any of the contents and levels 0 and 1.
RegistryFindAnchor ==
    /\ pc = "registry"
    /\ nEvents < MaxCalls
    /\ nEvents' = nEvents + 1
    /\ \E startIndex \in 0..Len(sp.lines), content \in RegistryContentPool,
          level \in 0..1 :
          session' = [session EXCEPT
                         !.name = "findAnchor", !.index = startIndex,
                         !.endIndex = startIndex, !.content = content,
                         !.level = level, !.before = sp.lines,
                         !.ret = FindAnchor(sp, AdjustedLineContent(content, level,
                                                                    content, level),
                                            startIndex).anchor]
    /\ UNCHANGED <<variant, acc, text, fed, drained, lastLine, sp, textDocument, limiter,
                   token, pc, streamed, issued>>

RegistryNext ==
    \/ RegistryReplaceLine
    \/ RegistryReplaceLines
    \/ RegistryAppendLine
    \/ RegistryInsertLineAfter
    \/ RegistryFindAnchor

SpecRegistry == RegistryInit /\ [][RegistryNext]_vars

\* The content of the registry line at a 0-based index.
ContentAt(index) == sp.lines[index + 1].content

\* C15: replaceLine(index) returns index+1 and leaves the line count
\* unchanged; replaceLines(start, end) returns start+1; insertLineAfter(index)
\* returns index+2 and the new content is at index+1; appendLine returns the
\* new line count and the new content is the last line.
C15_OperationResults ==
    /\ (session.name = "replaceLine") =>
          /\ session.ret = session.index + 1
          /\ Len(sp.lines) = Len(session.before)
          /\ ContentAt(session.index) = session.content
    /\ (session.name = "replaceLines") =>
          /\ session.ret = session.index + 1
          /\ Len(sp.lines) = Len(session.before) - (session.endIndex - session.index)
          /\ ContentAt(session.index) = session.content
    /\ (session.name = "insertLineAfter") =>
          /\ session.ret = session.index + 2
          /\ Len(sp.lines) = Len(session.before) + 1
          /\ ContentAt(session.index + 1) = session.content
    /\ (session.name = "appendLine") =>
          /\ session.ret = Len(sp.lines)
          /\ Len(sp.lines) = Len(session.before) + 1
          /\ ContentAt(Len(sp.lines) - 1) = session.content

\* C15 witness: the inline insertLineAfter(0) has put new content at index 1
\* of a registry that held something else there.
C15_Witness ==
    /\ variant = "inline"
    /\ session.name = "insertLineAfter" /\ session.index = 0
    /\ session.ret = 2
    /\ session.before[2].content # session.content
    /\ session.before[1].content # session.content
    /\ ContentAt(1) = session.content

\* The 0-based index of the first line the last operation took out or, when
\* it took none out, of the line it added; and of the last line it took out.
SpanStart ==
    CASE session.name = "insertLineAfter" -> session.index + 1
      [] session.name = "appendLine" -> Len(session.before)
      [] OTHER -> session.index
SpanEnd ==
    CASE session.name = "insertLineAfter" -> session.index
      [] session.name = "appendLine" -> Len(session.before) - 1
      [] OTHER -> session.endIndex

\* C16: right after the registry is constructed a line is isSent if and only
\* if its index lies in [range.start, range.end]; an operation marks no line
\* as sent (the line it writes is not sent), and every line it leaves in the
\* registry keeps its content and its isSent mark.
C16_SentOnlyAtConstruction ==
    /\ (session.name = "constructor") =>
          \A i \in 1..Len(sp.lines) :
             sp.lines[i].isSent <=> (session.startLine <= i - 1 /\ i - 1 <= session.endLine)
    /\ (session.name \notin {"constructor", "findAnchor"}) =>
          /\ sp.lines = SubSeq(session.before, 1, SpanStart)
                            \o <<NewLineContent(session.content)>>
                            \o SubSeq(session.before, SpanEnd + 2, Len(session.before))
          /\ ~sp.lines[SpanStart + 1].isSent

\* The lines of s that end with a newline, in order.
TerminatedLines(s) == SubSeq(SplitLines(s), 1, Len(SplitLines(s)) - 1)

\* The lines getLine has returned are the first terminated lines of the text
\* fed, in order, and the queue holds the rest: none lost, none twice.
FifoSoFar ==
    pc = "accumulate" =>
        /\ Len(drained) + Len(acc.lines) = Len(TerminatedLines(SubSeq(text, 1, fed)))
        /\ \A i \in 1..Len(drained) :
              drained[i].line = TerminatedLines(SubSeq(text, 1, fed))[i]
        /\ \A j \in 1..Len(acc.lines) :
              acc.lines[j].line = TerminatedLines(SubSeq(text, 1, fed))[Len(drained) + j]

\* A getLine call answers null exactly when the queue is empty, and then
\* changes nothing; otherwise it answers the oldest queued line and takes it
\* off the queue.
GetLineStep ==
    AccGetLine =>
        /\ (lastLine' = NullLine) <=> (acc.lines = <<>>)
        /\ (lastLine' = NullLine) => (acc' = acc /\ drained' = drained)
        /\ (lastLine' # NullLine) =>
              /\ lastLine' = acc.lines[1]
              /\ acc'.lines = Tail(acc.lines)
              /\ acc'.accumulator = acc.accumulator

\* C17: getLine returns the queued lines in the order their terminating
\* newline arrived, each exactly once, and returns null exactly when no
\* complete line is queued; a getLine that returns null changes nothing.
C17_Fifo == []FifoSoFar /\ [][GetLineStep]_vars

\* C17 witness: two different lines were returned, then null.
C17_Witness ==
    /\ pc = "accumulate"
    /\ Len(drained) >= 2 /\ drained[1].line # drained[2].line
    /\ acc.lines = <<>> /\ lastLine = NullLine

\* C18: Scenario B.  With the document and range of Scenario A and the
\* rewrite with the extra line after "function f() {", once the extra line
\* has been handled it was applied by insertLineAfter, the registry is one
\* line longer than constructed, and "  return 1;" and "}" come after it.
C18_ScenarioB ==
    (/\ variant = "streaming"
     /\ session.active
     /\ session.document = ScenarioDocument
     /\ session.range = [startLine |-> 0, endLine |-> 2]
     /\ session.sp.indentStyle = [kind |-> Spaces, indentSize |-> 2]
     /\ streamed = ScenarioBDelta
     /\ Len(drained) = 3 /\ drained[3].line = ExtraLine
     /\ Len(issued) = 2 /\ issued[2].lineNo = 3)
        => /\ issued[2].op = "insertLineAfter"
           /\ Len(sp.lines) = Len(session.sp.lines) + 1
           /\ sp.lines[2].content = ExtraLine
           /\ sp.lines[3].content = ScenarioDocument[2]
           /\ sp.lines[4].content = ScenarioDocument[3]

\* The adjusted line reindent gives for content already at its level.
AdjustedInPlace(content, style) ==
    AdjustedLineContent(content, GuessIndentLevel(content, style).level,
                        content, GuessIndentLevel(content, style).level)

\* C19: anchor search is a pure function of the registry content: findAnchor
\* leaves its argument as it was, and after replaceLine(index) has written
\* content equal to the isSent line that was at index, findAnchor from index
\* and findInitialAnchor both give index again.
C19_AnchorRefound ==
    (/\ pc = "registry"
     /\ session.name = "replaceLine"
     /\ session.before[session.index + 1].isSent
     /\ session.before[session.index + 1].content = session.content
     /\ FindInitialAnchor([sp EXCEPT !.lines = session.before], session.content)
            = session.index)
        => /\ FindAnchor(sp, AdjustedInPlace(session.content, sp.indentStyle),
                         session.index).adj
                  = AdjustedInPlace(session.content, sp.indentStyle)
           /\ FindAnchor(sp, AdjustedInPlace(session.content, sp.indentStyle),
                         session.index).anchor = session.index
           /\ FindInitialAnchor(sp, session.content) = session.index

\* C20: when the document handle rejects an edit the failure leaves the
\* registry operation, processLine and the streaming loop: from then on no
\* streamed line is processed and no edit is submitted in that session, and
\* the rejected edit is not tried again.
C20_RejectionStops ==
    (variant = "streaming" /\ session.active /\ session.rejectedAt.lines >= 0) =>
        /\ pc = "rejected"
        /\ Len(drained) = session.rejectedAt.lines
        /\ Len(issued) = session.rejectedAt.edits
        /\ limiter = <<>>

\* C20 witness: the second edit of a session was rejected while complete
\* lines were still queued in the accumulator.
C20_Witness ==
    /\ variant = "streaming" /\ session.active
    /\ pc = "rejected"
    /\ session.rejectedAt.edits = 2
    /\ acc.lines # <<>>

\* Line index of processor s is an isSent line, at or after firstSentLineIndex,
\* whose trimmed content is that of line.
SentMatch(s, index, line) ==
    /\ s.firstSentLineIndex <= index /\ index < Len(s.lines)
    /\ s.lines[index + 1].isSent
    /\ Trim(s.lines[index + 1].content) = Trim(line)

\* Index a is the initial anchor of line in processor s: the lowest SentMatch,
\* or firstRangeLine when there is none.
IsInitialAnchor(s, a, line) ==
    IF \E index \in 0..(Len(s.lines) - 1) : SentMatch(s, index, line)
    THEN /\ SentMatch(s, a, line)
         /\ \A index \in 0..(a - 1) : ~SentMatch(s, index, line)
    ELSE a = s.firstRangeLine

\* C21: the first processed line.  The first edit of a session comes from
\* replaceLine at the initial anchor of the line it was made for (the lowest
\* isSent line from firstSentLineIndex on with the same trimmed content, or
\* firstRangeLine), a processor that has handled a first line has issued that
\* edit, and right after it the cursor is anchor+1.
C21_FirstLine ==
    (variant = "inline" /\ session.active) =>
        /\ sp.previousLine.set => Len(issued) >= 1
        /\ Len(issued) >= 1 =>
              /\ issued[1].op = "replaceLine"
              /\ issued[1].edit.endLine = issued[1].edit.startLine
              /\ IsInitialAnchor(session.sp, issued[1].edit.startLine,
                                 drained[issued[1].lineNo].line)
              /\ (Len(issued) = 1 /\ Len(drained) = issued[1].lineNo) =>
                    sp.documentLineIndex = issued[1].edit.startLine + 1

\* C21 witness: a first line with no isSent match (its text is on a line that
\* is not isSent) was put on firstRangeLine, and one with a match at an index
\* above firstSentLineIndex was put there.
C21_Witness ==
    /\ variant = "inline" /\ session.active /\ Len(issued) = 1
    /\ Len(drained) = issued[1].lineNo
    /\ \/ /\ \A index \in 0..(Len(session.sp.lines) - 1) :
                ~SentMatch(session.sp, index, drained[issued[1].lineNo].line)
          /\ \E index \in 0..(Len(session.sp.lines) - 1) :
                /\ ~session.sp.lines[index + 1].isSent
                /\ Trim(session.sp.lines[index + 1].content)
                       = Trim(drained[issued[1].lineNo].line)
       \/ issued[1].edit.startLine > session.sp.firstSentLineIndex

\* Registry line index is isSent, not blank, and less indented than level.
Outdented(index, level) ==
    /\ sp.lines[index + 1].isSent
    /\ Len(Trim(sp.lines[index + 1].content)) > 0
    /\ IndentLevel(sp.lines[index + 1], sp.indentStyle) < level

\* Registry line index is isSent and its content is exactly content.
SentEqual(index, content) ==
    /\ sp.lines[index + 1].isSent
    /\ sp.lines[index + 1].content = content

\* The scan of findAnchor stops at registry line index.
ScanStops(index) ==
    Outdented(index, session.level) \/ SentEqual(index, session.content)

\* C22: findAnchor(adjustedLine, start) scans start..lineCount-1 in order and
\* skips lines that are not isSent; at the first line where it stops it
\* returns null if the line is less indented than the adjusted level (even
\* when its content is equal) and the line's index otherwise; it returns null
\* when the scan ends; an index returned is at least start.
C22_FindAnchorScan ==
    (pc = "registry" /\ session.name = "findAnchor") =>
        IF \E index \in session.index..(Len(sp.lines) - 1) : ScanStops(index)
        THEN \E index \in session.index..(Len(sp.lines) - 1) :
                /\ ScanStops(index)
                /\ \A lower \in session.index..(index - 1) : ~ScanStops(lower)
                /\ session.ret = IF Outdented(index, session.level) THEN NoAnchor
                                 ELSE index
        ELSE session.ret = NoAnchor

\* The last line drained was given to a processor that had handled a first
\* line, and it went past the context and marker tests of processLine.
LaterLineProcessed ==
    /\ variant = "inline" /\ session.active /\ drained # <<>>
    /\ session.prev.previousLine.set
    /\ session.prev.endDetected
    /\ drained[Len(drained)].context = InCodeBlock
    /\ ~StartsWith(drained[Len(drained)].line, FilePathMarker)
    /\ ~StartsWith(drained[Len(drained)].line, BeginMarker)
    /\ ~StartsWith(drained[Len(drained)].line, EndMarker)

\* The adjusted line of the last line drained and the anchor found for it.
LastAdjusted ==
    Reindent(session.prev.previousLine, drained[Len(drained)].line,
             session.prev.indentStyle).adj
LastAnchor ==
    FindAnchorInline(session.prev, LastAdjusted, session.prev.documentLineIndex).anchor

\* The registry line at the cursor when the last line drained was processed.
LineAtCursor == session.prev.lines[session.prev.documentLineIndex + 1]

\* The branch the last line drained has to take.
BranchExpected ==
    IF LastAnchor # NoAnchor THEN "replaceLines"
    ELSE IF session.prev.documentLineIndex >= Len(session.prev.lines) THEN "appendLine"
    ELSE IF \/ ~LineAtCursor.isSent
            \/ LastAdjusted.adjustedContent = <<>>
            \/ /\ LineAtCursor.content # <<>>
               /\ IndentLevel(LineAtCursor, session.prev.indentStyle)
                      < LastAdjusted.adjustedIndentLevel
         THEN "insertLineAfter"
         ELSE "replaceLine"

\* The edits issued for the last line drained.
LastIssued == SelectSeq(issued, LAMBDA e : e.lineNo = Len(drained))

C24_PastLimitNoReplace ==
    variant = "streaming" =>
        \A i \in 1..Len(issued) :
            issued[i].cursor > session.sp.documentLineLimit =>
                \A j \in i..Len(issued) :
                    /\ issued[j].op \in {"appendLine", "insertLineAfter"}
                    /\ issued[j].cursor > session.sp.documentLineLimit

\* C24 witness: past the limit one line was appended and a later one inserted.
C24_Witness ==
    /\ variant = "streaming"
    /\ \E i \in 1..Len(issued) : \E j \in (i + 1)..Len(issued) :
          /\ issued[i].cursor > session.sp.documentLineLimit
          /\ issued[i].op = "appendLine"
          /\ issued[j].op = "insertLineAfter"

\* C25: after each processed line the cursor is the index the operation just
\* performed returned: one past the line replaced (the anchor for the first
\* line, the cursor for a later one), one past the line just inserted, the
\* registry length after an append; a line that calls no operation leaves the
\* cursor alone; after the first processed line the cursor never decreases.
C25_CursorFollowsOperation ==
    (variant = "inline" /\ session.active /\ drained # <<>>) =>
        /\ (Len(LastIssued) = 0) => sp.documentLineIndex = session.prev.documentLineIndex
        /\ session.prev.previousLine.set =>
              sp.documentLineIndex >= session.prev.documentLineIndex
        /\ (Len(LastIssued) = 1) =>
              /\ (LastIssued[1].op \in {"replaceLine", "replaceLines"}) =>
                    /\ sp.documentLineIndex = LastIssued[1].edit.startLine + 1
                    /\ session.prev.previousLine.set =>
                          sp.documentLineIndex = session.prev.documentLineIndex + 1
              /\ (LastIssued[1].op = "insertLineAfter") =>
                    /\ sp.documentLineIndex = session.prev.documentLineIndex + 1
                    /\ Len(sp.lines) = Len(session.prev.lines) + 1
                    /\ <<NL>> \o sp.lines[sp.documentLineIndex].content
                           = LastIssued[1].edit.newText
              /\ (LastIssued[1].op = "appendLine") =>
                    /\ sp.documentLineIndex = Len(sp.lines)
                    /\ Len(sp.lines) = Len(session.prev.lines) + 1

\* C25 witness: the last line processed was appended, after lines that were
\* replaced and inserted.
C25_Witness ==
    /\ variant = "inline" /\ session.active /\ drained # <<>>
    /\ Len(LastIssued) = 1 /\ LastIssued[1].op = "appendLine"
    /\ sp.documentLineIndex = Len(sp.lines)
    /\ \E i \in 1..Len(issued) : issued[i].op \in {"replaceLine", "replaceLines"}

(***************************************************************************)
(* Conservation of the accumulated text                                    *)
(***************************************************************************)
\* The queued lines ls written out again, each followed by its newline.
RECURSIVE JoinQueued(_)
JoinQueued(ls) ==
    IF ls = <<>> THEN <<>> ELSE ls[1].line \o <<NL>> \o JoinQueued(Tail(ls))

\* C26: accumulator conservation.  Every line ever queued, each followed by a
\* newline, followed by the buffer, is the concatenation of the non-null
\* deltas given so far; the buffer holds no newline; addDelta(null) changes
\* neither buffer, queue nor context; and a delta without a newline queues
\* nothing: the text after the last newline waits in the buffer.
C26_Conservation ==
    pc = "accumulate" =>
        /\ JoinQueued(Produced) \o acc.accumulator = SubSeq(text, 1, fed)
        /\ IndexOf(acc.accumulator, NL) = -1
        /\ AddDelta(variant, acc, NullDelta) = acc
        /\ \A k \in 1..(Len(text) - fed) :
              IndexOf(SubSeq(text, fed + 1, fed + k), NL) = -1 =>
                  /\ AddDelta(variant, acc, SubSeq(text, fed + 1, fed + k)).lines = acc.lines
                  /\ AddDelta(variant, acc, SubSeq(text, fed + 1, fed + k)).accumulator
                         = acc.accumulator \o SubSeq(text, fed + 1, fed + k)

\* C26 witness: all of a text was given, in which two lines were queued (one
\* of them already taken by getLine) and the text after the last newline is
\* still in the buffer.
C26_Witness ==
    /\ pc = "accumulate" /\ fed = Len(text)
    /\ drained # <<>> /\ acc.lines # <<>>
    /\ acc.accumulator # <<>>

(***************************************************************************)
(* Lines outside the code block                                            *)
(***************************************************************************)
\* A processLine call of the inline loop on a line tagged other than
\* InCodeBlock.
InlineIgnoredCall ==
    /\ InlineDrainLine
    /\ lastLine' # NullLine
    /\ lastLine'.context # InCodeBlock

\* A processLine call of the streaming loops on a line tagged other than
\* InCodeBlock.
StreamingIgnoredCall ==
    /\ DrainLine
    /\ lastLine' # NullLine
    /\ lastLine'.context # InCodeBlock

\* C27: processLine on a line whose context is not InCodeBlock changes nothing:
\* the processor (its state, previousLine, cursor and registry lines), the
\* edits issued, the edits queued and the document are as before the call.
C27_IgnoredLineFrame ==
    [][/\ InlineIgnoredCall =>
             /\ sp' = sp
             /\ issued' = issued
             /\ textDocument' = textDocument
       /\ StreamingIgnoredCall =>
             /\ sp' = sp
             /\ issued' = issued
             /\ limiter' = limiter
             /\ textDocument' = textDocument
             /\ pc' = pc]_vars

\* C27 witness: the inline loop has just called processLine on a line after
\* the code block, when edits had been issued and previousLine was set.
C27_Witness ==
    /\ variant = "inline" /\ session.active /\ pc = "drainInline"
    /\ drained # <<>> /\ lastLine = drained[Len(drained)]
    /\ lastLine.context = AfterCodeBlock
    /\ issued # <<>> /\ sp.previousLine.set
    /\ session.prev = sp

(***************************************************************************)
(* Mismatched fences                                                       *)
(***************************************************************************)
\* Exactly one of the lines handed to processLine is a fence: an opening
\* fence that is never closed (a closing fence with no opening one is the same
\* stream: the first fence always counts as the opening one).
OneFenceDrained == FencesIn(drained, Len(drained)) = 1

\* The streaming session is over: event End has drained the queue and deleted
\* the session.
StreamEnded == ~session.active /\ pc = "loop" /\ lastLine = NullLine

\* C28: a stream whose fence markers are mismatched produces zero edits and
\* no error: when the session of a stream with a single fence is over no edit
\* was issued, and no processLine call of such a stream throws.
C28_MismatchedNoEdits ==
    (variant = "streaming" /\ OneFenceDrained) =>
        /\ StreamEnded => issued = <<>>
        /\ session.active => pc # "threw"

(***************************************************************************)
(* Construction of the streaming registry                                  *)
(***************************************************************************)
\* C29: construction of the streaming registry truncates the working set at
\* the range's end line: for a document of L lines and a range ending at line
\* e, getLineCount() is min(L, e + 1) right after construction, every index
\* below that holds the document's line, documentLineLimit is the last such
\* index at most e, and construction succeeds for every range with
\* 0 <= start <= end, a range ending at or past the last line included.
C29_ConstructionTruncates ==
    (variant = "streaming") =>
        /\ pc # "threw"
        /\ Len(session.constructed) = Min(Len(textDocument), session.endLine + 1)
        /\ \A i \in 1..Len(session.constructed) :
              session.constructed[i].content = textDocument[i]
        /\ (session.name = "constructor") =>
              sp.documentLineLimit = Min(session.endLine, Len(session.constructed) - 1)

(***************************************************************************)
(* The two accumulators side by side                                       *)
(***************************************************************************)
\* C30: the inline and the streaming accumulator are interchangeable: for
\* every sequence of deltas the lines queued so far, with the context tag of
\* each, are the lines either implementation queues for the text given.
C30_Interchangeable ==
    pc = "accumulate" =>
        /\ Produced = AddDeltaInline(NewAccumulator, SubSeq(text, 1, fed)).lines
        /\ Produced = AddDeltaStreaming(NewAccumulator, SubSeq(text, 1, fed)).lines

(***************************************************************************)
(* One operation for each line of the code block                           *)
(***************************************************************************)
\* The edits issued for the n-th line handed to processLine.
IssuedFor(n) == SelectSeq(issued, LAMBDA e : e.lineNo = n)

\* A processLine call of the streaming loops changes the registry length by
\* 0 or +1.
LengthStep ==
    (DrainLine /\ session.active /\ lastLine' # NullLine) =>
        Len(sp'.lines) - Len(sp.lines) \in {0, 1}

\* Every InCodeBlock line drained so far was applied by one operation, no
\* call threw, and the registry is at least as long as when constructed.
AppliedOnce ==
    (variant = "streaming" /\ session.active) =>
        /\ pc # "threw"
        /\ \A n \in 1..Len(drained) :
              drained[n].context = InCodeBlock => Len(IssuedFor(n)) = 1
        /\ Len(sp.lines) >= Len(session.sp.lines)

\* C31: in the limit-aware variant every InCodeBlock line is applied without
\* error by exactly one registry operation, each processed line changes the
\* registry length by 0 or +1, and the registry length never decreases
\* during a session.
C31_OneOperationPerLine == []AppliedOnce /\ [][LengthStep]_vars

(***************************************************************************)
(* Indices stay inside the registry                                        *)
(***************************************************************************)
\* The index that the operation of the issued entry e was called with (its
\* start index for replaceLines): replaceLine and replaceLines are called with
\* the line their edit starts at, insertLineAfter with the cursor - 1.
IndexPassed(e) == IF e.op = "insertLineAfter" THEN e.cursor - 1 ELSE e.edit.startLine

\* The operations of one processLine call were given positions of the
\* registry as it was when the call began.
IndicesExist ==
    \A i \in (Len(issued) + 1)..Len(issued') :
        (issued'[i].op \in {"replaceLine", "replaceLines", "insertLineAfter"}) =>
            /\ 0 <= IndexPassed(issued'[i])
            /\ IndexPassed(issued'[i]) < Len(sp.lines)
            /\ (issued'[i].op = "replaceLines") =>
                  /\ issued'[i].edit.startLine <= issued'[i].edit.endLine
                  /\ issued'[i].edit.endLine < Len(sp.lines)

\* The cursor is a position of the registry or one past its end, and the
\* registry has no hole.
CursorInRegistry ==
    (session.active /\ sp # NoProcessor) =>
        /\ 0 <= sp.documentLineIndex
        /\ sp.documentLineIndex <= Len(sp.lines)
        /\ \A i \in 1..Len(sp.lines) : sp.lines[i] # UndefinedLine

\* C32: after every processed line 0 <= documentLineIndex <= getLineCount(),
\* every index below getLineCount() holds a defined line, and every index
\* passed to replaceLine, replaceLines or insertLineAfter is an existing
\* registry position.
C32_IndicesInRegistry == []CursorInRegistry /\ [][IndicesExist]_vars

\* C32 witness: an insertLineAfter and a replaceLines call were made in one
\* session and the cursor stands one past the last registry line.
C32_Witness ==
    /\ session.active /\ sp # NoProcessor
    /\ sp.documentLineIndex = Len(sp.lines)
    /\ \E i \in 1..Len(issued) : issued[i].op = "insertLineAfter"
    /\ \E i \in 1..Len(issued) : issued[i].op \in {"replaceLines", "replaceLine"}

(***************************************************************************)
(* Streamed lines are never sent lines                                     *)
(***************************************************************************)
\* The number of isSent lines of a registry.
SentCount(lines) == Cardinality({i \in 1..Len(lines) : lines[i].isSent})

\* C33: every line written by replaceLine, replaceLines, appendLine or
\* insertLineAfter is a new line that is not isSent (it is the line just
\* before the cursor the operation returns), so the number of isSent lines
\* never increases during a session, every isSent line is one of the lines
\* marked at construction, and the anchor of a replaceLines call is such a
\* line, never a line streamed in this session.
C33_NewLinesNotSent ==
    (variant = "inline" /\ session.active /\ drained # <<>>) =>
        /\ SentCount(sp.lines) <= SentCount(session.prev.lines)
        /\ SentCount(sp.lines) <= SentCount(session.sp.lines)
        /\ \A i \in 1..Len(sp.lines) :
              sp.lines[i].isSent => \E j \in 1..Len(session.sp.lines) :
                                       session.sp.lines[j] = sp.lines[i]
        /\ (Len(LastIssued) = 1) =>
              /\ ~sp.lines[sp.documentLineIndex].isSent
              /\ (LastIssued[1].op = "replaceLines") =>
                    session.prev.lines[LastIssued[1].edit.endLine + 1].isSent

\* C33 witness: a replaceLines call has just replaced a span that ends at an
\* anchor, after an earlier line of the session was written, and fewer lines
\* are isSent than at construction.
C33_Witness ==
    /\ variant = "inline" /\ session.active /\ drained # <<>>
    /\ Len(LastIssued) = 1 /\ LastIssued[1].op = "replaceLines"
    /\ Len(issued) >= 2
    /\ SentCount(sp.lines) < SentCount(session.sp.lines)

(***************************************************************************)
(* Events for an id without a session                                      *)
(***************************************************************************)
\* A Delta event without a session leaves everything as it is and the loop
\* goes on to the next event.
DeltaWithoutSession ==
    (EventDelta /\ ~session.active) =>
        /\ pc' = "loop"
        /\ UNCHANGED <<acc, sp, issued, limiter, textDocument, drained, session>>

\* No event handled without a session throws; and when End has removed the
\* session every complete line streamed had been handed to processLine.
EventsOutsideSession ==
    (variant = "streaming" /\ ~session.active) =>
        /\ pc # "threw"
        /\ (pc = "loop" /\ streamed # <<>>) =>
              Len(drained) = Len(TerminatedLines(streamed))

\* C34: a Delta or End event whose id has no active session (no Start seen,
\* or End already handled) produces no edit and raises no error, and the
\* event loop goes on to the next event; an End event drains every line
\* still queued for its session and then removes the session.
C34_UnknownIdIgnored == []EventsOutsideSession /\ [][DeltaWithoutSession]_vars

(***************************************************************************)
(* The markers of the inline variant                                       *)
(***************************************************************************)
\* The n-th line handed to processLine is in the code block and starts with
\* "// BEGIN:" or "// END:".
MarkerAt(n) ==
    /\ drained[n].context = InCodeBlock
    /\ StartsWith(drained[n].line, BeginMarker) \/ StartsWith(drained[n].line, EndMarker)

\* The n-th line handed to processLine is the first "// FILEPATH:" line in
\* the code block, with no marker before it: it was seen in state Initial.
FilePathInInitialAt(n) ==
    /\ drained[n].context = InCodeBlock
    /\ StartsWith(drained[n].line, FilePathMarker)
    /\ \A k \in 1..(n - 1) :
          drained[k].context = InCodeBlock => ~StartsWith(drained[k].line, FilePathMarker)

\* Edits come after a marker and never from a marker line or from the
\* "// FILEPATH:" line seen in state Initial; endDetected tells that a marker
\* was seen.
EditsAfterMarker ==
    (variant = "inline" /\ session.active) =>
        /\ \A i \in 1..Len(issued) :
              /\ \E n \in 1..(issued[i].lineNo - 1) : MarkerAt(n)
              /\ ~MarkerAt(issued[i].lineNo)
              /\ ~FilePathInInitialAt(issued[i].lineNo)
        /\ sp.endDetected <=> \E n \in 1..Len(drained) : MarkerAt(n)

\* endDetected is never reset.
EndDetectedStays == sp.endDetected => sp'.endDetected

\* C35: in the inline variant no edit is issued before a line starting with
\* "// BEGIN:" or "// END:" has been seen inside the code block; those marker
\* lines and a "// FILEPATH:" line seen in the Initial state never produce an
\* edit themselves, and endDetected, once set, stays set.
C35_EditsAfterMarker == []EditsAfterMarker /\ [][EndDetectedStays]_vars

\* C35 witness: a "// FILEPATH:" line and then a marker were seen in the code
\* block, and edits were issued for lines after the marker.
C35_Witness ==
    /\ variant = "inline" /\ session.active /\ sp.endDetected
    /\ \E n \in 1..Len(drained) : FilePathInInitialAt(n)
    /\ issued # <<>>

(***************************************************************************)
(* startSidecarBinary: spawning the sidecar and its health check           *)
(***************************************************************************)
\* const maxAttempts = 5 of startSidecarBinary.
maxAttempts == 5

\* The spawnChild and waitForGreenHC calls looked at, first calls and timer
\* callbacks together.
MaxSidecarCalls == 9

\* The closure state of startSidecarBinary once the binary is installed:
\* attempts and hcAttempts, the timers set by the two retry functions, the
\* children whose 'error' event is still to come, the spawn and fetch calls
\* made, whether a health check has answered 200, and the rejections of
\* waitForGreenHC calls made from a timer.
NewSidecar(platform) ==
    [platform |-> platform, attempts |-> 0, hcAttempts |-> 0,
     spawnTimers |-> 0, hcTimers |-> 0, childErrors |-> 0,
     spawned |-> 0, checks |-> 0, green |-> FALSE, unhandled |-> 0]

\* spawnChild's retry(): attempts++ and setTimeout(spawnChild, delay).
SpawnRetry(s) == [s EXCEPT !.attempts = @ + 1, !.spawnTimers = @ + 1]

\* One call of spawnChild: spawn throws (the catch retries whatever attempts
\* is), or the child starts; on win32 an 'error' listener is attached and the
\* child may emit 'error' later.
SpawnChild(s, outcome) ==
    CASE outcome = "throws" -> SpawnRetry([s EXCEPT !.spawned = @ + 1])
      [] outcome = "errorLater" -> [s EXCEPT !.spawned = @ + 1, !.childErrors = @ + 1]
      [] OTHER -> [s EXCEPT !.spawned = @ + 1]

\* The outcomes of spawn on the platform of s.
SpawnOutcomes(s) ==
    IF s.platform = "win32" THEN {"started", "throws", "errorLater"}
    ELSE {"started", "throws"}

\* child.on('error'): retry while attempts < maxAttempts.
OnChildError(s) ==
    IF s.attempts < maxAttempts
    THEN SpawnRetry([s EXCEPT !.childErrors = @ - 1])
    ELSE [s EXCEPT !.childErrors = @ - 1]

\* waitForGreenHC's retry(): hcAttempts++ and setTimeout(waitForGreenHC, delay).
HealthRetry(s) == [s EXCEPT !.hcAttempts = @ + 1, !.hcTimers = @ + 1]

\* One call of waitForGreenHC with the fetch outcome: the closure state after
\* it and whether the call throws.  A status other than 200 retries whatever
\* hcAttempts is; a fetch error retries while hcAttempts < maxAttempts.
WaitForGreenHC(s, outcome) ==
    CASE outcome = "200" ->
             [s |-> [s EXCEPT !.checks = @ + 1, !.green = TRUE], threw |-> FALSE]
      [] outcome = "non200" ->
             [s |-> HealthRetry([s EXCEPT !.checks = @ + 1]), threw |-> FALSE]
      [] OTHER ->
             IF s.hcAttempts < maxAttempts
             THEN [s |-> HealthRetry([s EXCEPT !.checks = @ + 1]), threw |-> FALSE]
             ELSE [s |-> [s EXCEPT !.checks = @ + 1], threw |-> TRUE]

FetchOutcomes == {"200", "non200", "fetchError"}

SidecarInit ==
    /\ variant = "sidecar"
    /\ \E platform \in {"win32", "linux"} : session = NewSidecar(platform)
    /\ pc = "spawnChild"
    /\ sp = NoProcessor
    /\ acc = NewAccumulator
    /\ text = <<>>
    /\ textDocument = <<>>
    /\ limiter = <<>>
    /\ token = FALSE
    /\ nEvents = 0
    /\ streamed = <<>>
    /\ issued = <<>>
    /\ drained = <<>>
    /\ lastLine = NullLine
    /\ fed = 0

\* A step of the sidecar start-up: the closure state becomes s, the function
\* is at position at.
SidecarStep(s, at) ==
    /\ nEvents < MaxSidecarCalls
    /\ nEvents' = nEvents + 1
    /\ session' = s
    /\ pc' = at
    /\ UNCHANGED <<variant, acc, text, fed, drained, lastLine, sp, textDocument,
                   limiter, token, streamed, issued>>

\* await spawnChild(): the first call; the function goes on to the health
\* check when the call returns, retry scheduled or not.
SidecarSpawn ==
    /\ pc = "spawnChild"
    /\ \E outcome \in SpawnOutcomes(session) :
          SidecarStep(SpawnChild(session, outcome), "waitForGreenHC")

\* A timer set by spawnChild's retry fires: spawnChild again.
SidecarSpawnTimer ==
    /\ session.spawnTimers > 0
    /\ \E outcome \in SpawnOutcomes(session) :
          SidecarStep(SpawnChild([session EXCEPT !.spawnTimers = @ - 1], outcome), pc)

\* A child emits 'error'.
SidecarChildError ==
    /\ session.childErrors > 0
    /\ SidecarStep(OnChildError(session), pc)

\* await waitForGreenHC(): the first call; when it returns the function
\* returns the URL, when it throws the function rejects.
SidecarHealthCheck ==
    /\ pc = "waitForGreenHC"
    /\ \E outcome \in FetchOutcomes :
          SidecarStep(WaitForGreenHC(session, outcome).s,
                      IF WaitForGreenHC(session, outcome).threw
                      THEN "rejected" ELSE "returned")

\* A timer set by waitForGreenHC's retry fires: waitForGreenHC again, its
\* promise held by nobody.
SidecarHealthTimer ==
    /\ session.hcTimers > 0
    /\ \E outcome \in FetchOutcomes :
          SidecarStep(
              [WaitForGreenHC([session EXCEPT !.hcTimers = @ - 1], outcome).s
                  EXCEPT !.unhandled =
                      @ + (IF WaitForGreenHC([session EXCEPT !.hcTimers = @ - 1],
                                             outcome).threw THEN 1 ELSE 0)],
              pc)

SidecarNext ==
    \/ SidecarSpawn
    \/ SidecarSpawnTimer
    \/ SidecarChildError
    \/ SidecarHealthCheck
    \/ SidecarHealthTimer

SpecSidecar == SidecarInit /\ [][SidecarNext]_vars

\* C36: startSidecarBinary resolves with the sidecar URL only after a health
\* check has returned status 200: when the first health check fails or
\* answers another status, it does not return until a retry has succeeded.
C36_ReturnsAfterGreen ==
    (variant = "sidecar" /\ pc = "returned") => session.green

\* C37: sidecar start-up retries are bounded: the binary is spawned at most
\* maxAttempts + 1 times and the health check is attempted at most
\* maxAttempts + 1 times, whatever spawn errors, fetch errors and statuses
\* other than 200 occur.
C37_RetriesBounded ==
    (variant = "sidecar") =>
        /\ session.spawned <= maxAttempts + 1
        /\ session.checks <= maxAttempts + 1

====
